---- MODULE Spec2Model ----
(***************************************************************************)
(* Fama-French 1993 factor pipeline of src/src/calc_Fama_French_1993.py.   *)
(*                                                                         *)
(* Tables (pandas DataFrames) are sequences of records, one record per     *)
(* row, in row order.  Numeric cells are exact rationals <<n, d>> with     *)
(* d > 0 and gcd(n, d) = 1; the missing value NaN is <<0, 0>>.  Dates are  *)
(* month numbers m = 12 * year + (month - 1), so that mthcaldt and jdate   *)
(* (the month-end aligned date) of a record are the same number.           *)
(*                                                                         *)
(* Each stage function of the pipeline is one action.  The specifications  *)
(* SpecBE, SpecME, SpecWt, SpecAssign run one stage each on every input    *)
(* table of a bounded family; SpecLink runs use_dec_market_equity and      *)
(* merge_CRSP_and_Compustat, SpecFactors the aggregation and the factor    *)
(* synthesis, SpecBucket one call of a bucket function, SpecSubset the     *)
(* common-stock selection.  SpecParse runs _parse_csv_sections of          *)
(* src/src/pull_ken_french_data.py on every file of a bounded family.      *)
(***************************************************************************)
EXTENDS Integers, Sequences, FiniteSets, TLC

VARIABLES
    pc,        \* position in create_fama_french_portfolios
    comp_in,   \* the fundamentals table handed to calc_book_equity_and_years_in_compustat
    comp,      \* the table it returns
    crsp,      \* the security-month table handed to calculate_market_equity
    crsp2,     \* the table it returns, handed to use_dec_market_equity
    crsp3,     \* the monthly panel returned by use_dec_market_equity
    crsp_jun,  \* the June panel with dec_me returned by use_dec_market_equity
    ccm_jun,   \* the linked June panel handed to assign_size_and_bm_portfolios
    ccm1_jun,  \* the June panel with breakpoints and labels
    ccm4,      \* the panel that enters portfolio aggregation
    ccm,       \* the link table handed to merge_CRSP_and_Compustat
    today,     \* what pd.to_datetime("today") returns during the run
    vwret,     \* the value-weighted return of every (month, bucket) group
    vwret_n,   \* the firm count of every (month, bucket) group
    ff_factors, \* the factor table of create_factors_from_portfolios
    ff_nfirms, \* its firm-count table
    err,       \* the exception raised to the caller, "" if none
    row_in,    \* the row handed to size_bucket or book_to_market_bucket
    value_out, \* the label it returns
    crsp_in,   \* the security-month table handed to subset_CRSP_to_common_stock_and_exchanges
    csv_content, \* the lines handed to _parse_csv_sections
    sections   \* the list of tables it returns

\* The variables of linking, aggregation, factor synthesis and of the two
\* bucket functions.
later == <<ccm, today, vwret, vwret_n, ff_factors, ff_nfirms, err, row_in, value_out,
           crsp_in, csv_content, sections>>

vars == <<pc, comp_in, comp, crsp, crsp2, crsp3, crsp_jun, ccm_jun, ccm1_jun, ccm4,
          ccm, today, vwret, vwret_n, ff_factors, ff_nfirms, err, row_in, value_out,
          crsp_in, csv_content, sections>>

\* Before linking, aggregation and factor synthesis have run, and with no
\* call of a bucket function outside the pipeline.
LaterInit ==
    /\ ccm = <<>> /\ today = 0
    /\ vwret = <<>> /\ vwret_n = <<>> /\ ff_factors = <<>> /\ ff_nfirms = <<>>
    /\ err = "" /\ row_in = <<>> /\ value_out = ""
    /\ crsp_in = <<>> /\ csv_content = <<>> /\ sections = <<>>

----------------------------------------------------------------------------
(* Exact arithmetic on float cells; comparisons with NaN are false.        *)

NaN == <<0, 0>>

IsNaN(x) == x[2] = 0

Abs(n) == IF n < 0 THEN -n ELSE n

RECURSIVE GCD(_, _)
GCD(a, b) == IF b = 0 THEN a ELSE GCD(b, a % b)

Rat(n, d) ==
    IF d = 0 THEN NaN
    ELSE LET g == GCD(Abs(n), Abs(d))
             s == IF d < 0 THEN -1 ELSE 1
         IN  <<(s * n) \div g, (s * d) \div g>>

Num(n) == <<n, 1>>

RAdd(x, y) == IF IsNaN(x) \/ IsNaN(y) THEN NaN
              ELSE Rat(x[1] * y[2] + y[1] * x[2], x[2] * y[2])

RSub(x, y) == IF IsNaN(x) \/ IsNaN(y) THEN NaN
              ELSE Rat(x[1] * y[2] - y[1] * x[2], x[2] * y[2])

RMul(x, y) == IF IsNaN(x) \/ IsNaN(y) THEN NaN
              ELSE Rat(x[1] * y[1], x[2] * y[2])

RDiv(x, y) == IF IsNaN(x) \/ IsNaN(y) THEN NaN
              ELSE Rat(x[1] * y[2], x[2] * y[1])

RLt(x, y) == ~IsNaN(x) /\ ~IsNaN(y) /\ x[1] * y[2] < y[1] * x[2]

RLe(x, y) == ~IsNaN(x) /\ ~IsNaN(y) /\ x[1] * y[2] <= y[1] * x[2]

RGt(x, y) == RLt(y, x)

RGe(x, y) == RLe(y, x)

\* Python's == on floats: NaN equals nothing, itself included.
REq(x, y) == ~IsNaN(x) /\ ~IsNaN(y) /\ x = y

isnull(x) == IsNaN(x)

\* np.where(cond, a, b) on one cell.
where(cond, a, b) == IF cond THEN a ELSE b

----------------------------------------------------------------------------
(* Dates.                                                                  *)

Year(m) == m \div 12

Month(m) == (m % 12) + 1

\* The month number of month `mon` (1..12) of year y.
Date(y, mon) == 12 * y + (mon - 1)

----------------------------------------------------------------------------
(* Table helpers.                                                          *)

\* Lexicographic <= on sort keys, which are tuples of cells.
RECURSIVE LexLe(_, _)
LexLe(a, b) ==
    IF a = <<>> THEN TRUE
    ELSE IF a[1] = b[1] THEN LexLe(Tail(a), Tail(b))
    ELSE RLe(a[1], b[1])

\* Row indices in ascending order of key[i]; rows with equal keys keep their
\* order.
RECURSIVE SortIdx(_, _)
SortIdx(key, todo) ==
    IF todo = {} THEN <<>>
    ELSE LET i == CHOOSE a \in todo :
                    \A b \in todo :
                        IF key[a] = key[b] THEN a <= b ELSE LexLe(key[a], key[b])
         IN  <<i>> \o SortIdx(key, todo \ {i})

\* DataFrame.sort_values(by=...): key[i] holds the `by` cells of row i.
sort_values(t, key) ==
    LET idx == SortIdx(key, 1..Len(t))
    IN  [k \in 1..Len(t) |-> t[idx[k]]]

\* groupby(...).cumcount(): the number of earlier rows of the same group;
\* key[i] holds the group cells of row i.
cumcount(key, i) == Cardinality({j \in 1..(i - 1) : key[j] = key[i]})

----------------------------------------------------------------------------
(* Stage 1: calc_book_equity_and_years_in_compustat.                       *)

\* The mutant of the preferred-stock chain that passes over pstkl.
ps_without_pstkl(r) ==
    LET ps1 == where(isnull(r.pstkrv), r.pstk, r.pstkrv)
    IN  where(isnull(ps1), Num(0), ps1)

\* comp["ps"]: pstkrv, else pstkl, else pstk, else 0.
ps_of(r) ==
    LET ps1 == where(isnull(r.pstkrv), r.pstkl, r.pstkrv)
        ps2 == where(isnull(ps1), r.pstk, ps1)
    IN  where(isnull(ps2), Num(0), ps2)

\* comp["txditc"].fillna(0)
fillna0(x) == IF isnull(x) THEN Num(0) ELSE x

\* comp["be"] = seq + txditc - ps, before the clamp.
be_raw(r) == RSub(RAdd(r.seq, fillna0(r.txditc)), ps_of(r))

\* np.where(be > 0, be, nan), with the mutant that keeps a zero book equity.
be_clamp_keeps_zero(b) == where(RGe(b, Num(0)), b, NaN)

be_clamp(b) == where(RGt(b, Num(0)), b, NaN)

\* The columns the function writes into the frame it was handed.
comp_columns(r) ==
    [gvkey |-> r.gvkey, datadate |-> r.datadate, year |-> r.year,
     seq |-> r.seq, pstkrv |-> r.pstkrv, pstkl |-> r.pstkl, pstk |-> r.pstk,
     txditc |-> fillna0(r.txditc), ps |-> ps_of(r), be |-> be_clamp(be_raw(r))]

CompSortKey(r) == <<Num(r.gvkey), Num(r.datadate)>>

calc_book_equity_and_years_in_compustat(t) ==
    LET full   == [i \in 1..Len(t) |-> comp_columns(t[i])]
        sorted == sort_values(full, [i \in 1..Len(t) |-> CompSortKey(full[i])])
    IN  [i \in 1..Len(sorted) |->
            [gvkey |-> sorted[i].gvkey, datadate |-> sorted[i].datadate,
             year |-> sorted[i].year, be |-> sorted[i].be,
             count |-> cumcount([j \in 1..Len(sorted) |-> sorted[j].gvkey], i)]]

\* Bounds of the fundamentals tables.
MaxComp == 2
MaxAmt == 2

Amounts == {NaN} \cup {Num(n) : n \in (-1)..MaxAmt}

\* A fundamentals row whose five balance-sheet cells range freely.
FreeCompRows ==
    [gvkey : {1}, datadate : {11}, year : {0},
     seq : Amounts, txditc : {NaN, Num(1)},
     pstkrv : {NaN, Num(1)}, pstkl : {NaN, Num(2)}, pstk : {NaN, Num(3)}]

\* The other rows of the table: the same or another entity, an earlier or a
\* later fiscal year, a positive, a non-positive or a missing equity.
OtherCompRows ==
    [gvkey : {1, 2}, datadate : {5, 23}, year : {0, 1},
     seq : {NaN, Num(0), Num(4)}, txditc : {NaN},
     pstkrv : {NaN}, pstkl : {NaN}, pstk : {Num(1)}]

RECURSIVE Tables(_, _)
Tables(rows, n) ==
    IF n = 0 THEN {<<>>}
    ELSE LET shorter == Tables(rows, n - 1)
         IN  shorter \cup {Append(t, r) : t \in shorter, r \in rows}

CompKey(r) == <<r.gvkey, r.datadate>>

CompTables ==
    {<<r>> \o t : r \in FreeCompRows,
                  t \in {u \in Tables(OtherCompRows, MaxComp - 1) :
                            /\ \A i, j \in 1..Len(u) :
                                  CompKey(u[i]) = CompKey(u[j]) => i = j
                            /\ \A i \in 1..Len(u) : u[i].year = Year(u[i].datadate)}}

InitBE ==
    /\ pc = "comp"
    /\ \E t \in CompTables, k \in 1..MaxComp :
          \* the free row at any position of the loaded table
          /\ k <= Len(t)
          /\ comp_in = [i \in 1..Len(t) |->
                          IF i = k THEN t[1] ELSE IF i < k THEN t[i + 1] ELSE t[i]]
    /\ comp = <<>> /\ crsp = <<>> /\ crsp2 = <<>>
    /\ crsp3 = <<>> /\ crsp_jun = <<>> /\ ccm_jun = <<>> /\ ccm1_jun = <<>> /\ ccm4 = <<>>
    /\ LaterInit

\* comp = calc_book_equity_and_years_in_compustat(comp): the frame handed in
\* gets the columns ps and be and the filled txditc; the result is a new frame.
CalcBookEquity ==
    /\ pc = "comp"
    /\ comp' = calc_book_equity_and_years_in_compustat(comp_in)
    /\ comp_in' = [i \in 1..Len(comp_in) |-> comp_columns(comp_in[i])]
    /\ pc' = "comp_done"
    /\ UNCHANGED <<crsp, crsp2, crsp3, crsp_jun, ccm_jun, ccm1_jun, ccm4>>
    /\ UNCHANGED later

NextBE == CalcBookEquity

SpecBE == InitBE /\ [][NextBE]_vars

\* C9: every row returned by calc_book_equity_and_years_in_compustat has a
\* book equity that is missing or strictly positive, never zero or negative.
C9_BookEquityPositive ==
    pc = "comp_done" =>
        \A i \in 1..Len(comp) :
            \/ comp[i].be = NaN
            \/ (comp[i].be[1] > 0 /\ comp[i].be[2] > 0)

\* A run that clamps a zero or negative raw book equity to missing, next to a
\* row that keeps its positive book equity.
C9_Witness ==
    /\ pc = "comp_done"
    /\ \E i \in 1..Len(comp_in) :
          /\ ~IsNaN(be_raw(comp_in[i])) /\ be_raw(comp_in[i])[1] <= 0
          /\ comp_in[i].be = NaN
    /\ \E i \in 1..Len(comp) : comp[i].be[1] > 0

\* C23: for every fundamentals record the preferred-stock value is pstkrv if
\* present, else pstkl if present, else pstk if present, else zero; book
\* equity before the clamp is seq + txditc - that value, a missing txditc
\* counting as zero, so that with seq present it is defined whatever
\* preferred-stock or deferred-tax figure is missing.
C23_PreferredStockFallbackChain ==
    [][pc = "comp" =>
          \A i \in 1..Len(comp_in) :
              LET r   == comp_in[i]
                  ps  == IF r.pstkrv # NaN THEN r.pstkrv
                         ELSE IF r.pstkl # NaN THEN r.pstkl
                         ELSE IF r.pstk # NaN THEN r.pstk
                         ELSE Num(0)
                  tx  == IF r.txditc # NaN THEN r.txditc ELSE Num(0)
                  raw == IF r.seq = NaN THEN NaN
                         ELSE Num(r.seq[1] + tx[1] - ps[1])
              IN  /\ comp_in'[i].ps = ps
                  /\ comp_in'[i].be = (IF raw # NaN /\ raw[1] > 0 THEN raw ELSE NaN)
                  /\ \E k \in 1..Len(comp') :
                        /\ comp'[k].gvkey = r.gvkey
                        /\ comp'[k].datadate = r.datadate
                        /\ comp'[k].be = comp_in'[i].be]_vars

\* A record with no preferred-stock figure at all and stockholders' equity 2
\* gets preferred stock 0 and book equity 2; its deferred tax credit is 0
\* after the call, which no loaded record has.
C23_Witness ==
    /\ pc = "comp_done"
    /\ \E i \in 1..Len(comp_in) :
          /\ comp_in[i].pstkrv = NaN /\ comp_in[i].pstkl = NaN /\ comp_in[i].pstk = NaN
          /\ comp_in[i].seq = Num(2)
          /\ comp_in[i].txditc = Num(0)
          /\ comp_in[i].ps = Num(0)
          /\ comp_in[i].be = Num(2)

----------------------------------------------------------------------------
(* Stage 2: subset_CRSP_to_common_stock_and_exchanges.                     *)

\* The first .loc: the common stock universe.  A comparison with a cell that
\* holds anything else, a missing cell included, is False.
\* The mutant that takes every issuer type.
common_stock_any_issuer(r) ==
    /\ r.sharetype = "NS"
    /\ r.securitytype = "EQTY"
    /\ r.securitysubtype = "COM"
    /\ r.usincflg = "Y"

common_stock(r) ==
    /\ r.sharetype = "NS"
    /\ r.securitytype = "EQTY"
    /\ r.securitysubtype = "COM"
    /\ r.usincflg = "Y"
    /\ r.issuertype \in {"ACOR", "CORP"}

\* The second .loc: NYSE, AMEX and NASDAQ, regular way, actively traded.
on_exchange(r) ==
    /\ r.primaryexch \in {"N", "A", "Q"}
    /\ r.conditionaltype = "RW"
    /\ r.tradingstatusflg = "A"

\* Both selections keep the rows whole and in the order of the frame; the
\* name crsp is rebound, the caller's frame is not written.
subset_CRSP_to_common_stock_and_exchanges(t) ==
    SelectSeq(SelectSeq(t, common_stock), on_exchange)

\* Bound of the tables of this stage: the number of rows beside the free one.
MaxFill == 2

\* A row that passes both selections.
GoodRow ==
    [permno |-> 1, jdate |-> Date(0, 6), mthret |-> Num(1),
     sharetype |-> "NS", securitytype |-> "EQTY", securitysubtype |-> "COM",
     usincflg |-> "Y", issuertype |-> "CORP", primaryexch |-> "N",
     conditionaltype |-> "RW", tradingstatusflg |-> "A"]

\* Security 10 + k: kept for odd k, halted in trading for even k.
FillRow(k) ==
    IF k % 2 = 1
    THEN [GoodRow EXCEPT !.permno = 10 + k, !.mthret = Num(k)]
    ELSE [GoodRow EXCEPT !.permno = 10 + k, !.mthret = Num(k),
                         !.tradingstatusflg = "H"]

\* Security 1 with every combination of the eight classification cells; ""
\* is a missing share type.
FreeCrspRows ==
    [permno : {1}, jdate : {Date(0, 6)}, mthret : {Num(1)},
     sharetype : {"NS", ""}, securitytype : {"EQTY", "FUND"},
     securitysubtype : {"COM", "ETF"}, usincflg : {"Y", "N"},
     issuertype : {"ACOR", "CORP", "REIT"},
     primaryexch : {"N", "A", "Q", "B"},
     conditionaltype : {"RW", "NW"}, tradingstatusflg : {"A", "H"}]

InitSubset ==
    /\ pc = "crsp_in"
    /\ \E n \in 0..MaxFill, r \in FreeCrspRows :
          \E k \in 0..n :
              crsp_in = [i \in 1..k |-> FillRow(i)] \o <<r>> \o
                        [i \in 1..(n - k) |-> FillRow(k + i)]
    /\ csv_content = <<>> /\ sections = <<>>
    /\ comp_in = <<>> /\ comp = <<>> /\ crsp = <<>> /\ crsp2 = <<>>
    /\ crsp3 = <<>> /\ crsp_jun = <<>> /\ ccm_jun = <<>> /\ ccm1_jun = <<>> /\ ccm4 = <<>>
    /\ ccm = <<>> /\ today = 0
    /\ vwret = <<>> /\ vwret_n = <<>> /\ ff_factors = <<>> /\ ff_nfirms = <<>>
    /\ err = "" /\ row_in = <<>> /\ value_out = ""

\* crsp = subset_CRSP_to_common_stock_and_exchanges(crsp)
SubsetCrsp ==
    /\ pc = "crsp_in"
    /\ crsp' = subset_CRSP_to_common_stock_and_exchanges(crsp_in)
    /\ pc' = "crsp_done"
    /\ UNCHANGED <<comp_in, comp, crsp2, crsp3, crsp_jun, ccm_jun, ccm1_jun, ccm4>>
    /\ UNCHANGED <<ccm, today, vwret, vwret_n, ff_factors, ff_nfirms, err, row_in,
                   value_out, crsp_in, csv_content, sections>>

NextSubset == SubsetCrsp

SpecSubset == InitSubset /\ [][NextSubset]_vars

\* C24: the returned table holds exactly the input records with share type
\* NS, security type EQTY, security subtype COM, US-incorporated flag Y,
\* issuer type ACOR or CORP, primary exchange N, A or Q, conditional type RW
\* and trading status A, each once and with the field values of the input;
\* a record failing any one of the eight is not returned.
C24_ExactlyTheEightConditionRecords ==
    pc = "crsp_done" =>
        LET Eight(r) == /\ r.sharetype = "NS" /\ r.securitytype = "EQTY"
                        /\ r.securitysubtype = "COM" /\ r.usincflg = "Y"
                        /\ (r.issuertype = "ACOR" \/ r.issuertype = "CORP")
                        /\ (r.primaryexch = "N" \/ r.primaryexch = "A"
                               \/ r.primaryexch = "Q")
                        /\ r.conditionaltype = "RW" /\ r.tradingstatusflg = "A"
            Passing == {i \in 1..Len(crsp_in) : Eight(crsp_in[i])}
        IN  /\ \A i \in 1..Len(crsp_in) :
                  (i \in Passing) <=> (\E k \in 1..Len(crsp) : crsp[k] = crsp_in[i])
            /\ \A k \in 1..Len(crsp) : \E i \in Passing : crsp_in[i] = crsp[k]
            /\ Len(crsp) = Cardinality(Passing)

\* An asset-backed corporate issuer listed on AMEX is returned as loaded,
\* and a security halted in trading of the same table is dropped.
C24_Witness ==
    /\ pc = "crsp_done"
    /\ Len(crsp_in) = 3
    /\ \E i, j \in 1..Len(crsp_in) :
          /\ crsp_in[i].permno = 1
          /\ crsp_in[i].issuertype = "ACOR" /\ crsp_in[i].primaryexch = "A"
          /\ \E k \in 1..Len(crsp) : crsp[k] = crsp_in[i]
          /\ crsp_in[j].tradingstatusflg = "H"
          /\ \A k \in 1..Len(crsp) : crsp[k].permno # crsp_in[j].permno

----------------------------------------------------------------------------
(* Stage 3: calculate_market_equity.                                       *)

\* df["permno_me"] = df["mthprc"] * df["shrout"]
permno_me_of(r) == RMul(r.mthprc, r.shrout)

with_permno_me(r) ==
    [permno |-> r.permno, permco |-> r.permco, jdate |-> r.jdate,
     mthretx |-> r.mthretx, permno_me |-> permno_me_of(r)]

SameGroup(a, b) == a.jdate = b.jdate /\ a.permco = b.permco

\* groupby(["jdate", "permco"])["permno_me"].sum() at the group of row r.
RECURSIVE group_sum(_, _, _)
group_sum(df, r, n) ==
    IF n = 0 THEN Num(0)
    ELSE IF SameGroup(df[n], r)
         THEN RAdd(group_sum(df, r, n - 1), df[n].permno_me)
         ELSE group_sum(df, r, n - 1)

\* groupby(["jdate", "permco"])["permno_me"].max() at the group of row r,
\* with the mutant that takes the smallest security of the entity.
group_min(df, r) ==
    LET g == {i \in 1..Len(df) : SameGroup(df[i], r)}
    IN  df[CHOOSE i \in g : \A j \in g : RLe(df[i].permno_me, df[j].permno_me)].permno_me

group_max(df, r) ==
    LET g == {i \in 1..Len(df) : SameGroup(df[i], r)}
    IN  df[CHOOSE i \in g : \A j \in g : RGe(df[i].permno_me, df[j].permno_me)].permno_me

MeSortKey(r) == <<Num(r.jdate), Num(r.permco), r.permno_me>>

PermnoDateKey(r) == <<Num(r.permno), Num(r.jdate)>>

\* DataFrame.drop_duplicates(): a row equal to an earlier row is dropped.
RECURSIVE drop_duplicates(_)
drop_duplicates(t) ==
    IF t = <<>> THEN <<>>
    ELSE LET n    == Len(t)
             head == drop_duplicates(SubSeq(t, 1, n - 1))
         IN  IF \E i \in 1..(n - 1) : t[i] = t[n] THEN head ELSE Append(head, t[n])

calculate_market_equity(t) ==
    LET df0 == [i \in 1..Len(t) |-> with_permno_me(t[i])]
        df1 == sort_values(df0, [i \in 1..Len(t) |-> MeSortKey(df0[i])])
        IsMax(r) == r.permno_me = group_max(df1, r)
        \* inner join with permno_max_me on jdate, permco, permno_me
        df2 == SelectSeq(df1, IsMax)
        \* inner join with permco_me on jdate, permco; permno_me dropped
        df3 == [i \in 1..Len(df2) |->
                  [permno |-> df2[i].permno, permco |-> df2[i].permco,
                   jdate |-> df2[i].jdate, mthretx |-> df2[i].mthretx,
                   me |-> group_sum(df1, df2[i], Len(df1))]]
    IN  drop_duplicates(
            sort_values(df3, [i \in 1..Len(df3) |-> PermnoDateKey(df3[i])]))

\* Bounds of the security-month tables of this stage.
MaxSec == 2
MaxPrc == 2

JuneY0 == Date(0, 6)
JulyY0 == Date(0, 7)

\* Recorded prices of either sign (a negative price marks a bid/ask average).
PrcVals == {Num(n) : n \in ((-MaxPrc)..MaxPrc) \ {0}}

ShroutVals == {Num(1), Num(3)}

\* What the table holds of one security: nothing, or rows for one or two
\* months under one parent entity.
NoRows == [months |-> {}, permco |-> 1, mthprc |-> Num(1), shrout |-> Num(1)]

SecurityRows(p) ==
    {NoRows} \cup
    [months : {{JuneY0}, {JuneY0, JulyY0}},
     permco : IF p = 1 THEN {1} ELSE {1, 2},
     mthprc : PrcVals, shrout : ShroutVals]

RECURSIVE SetToSeq(_)
SetToSeq(S) ==
    IF S = {} THEN <<>>
    ELSE LET x == CHOOSE y \in S : TRUE
         IN  <<x>> \o SetToSeq(S \ {x})

CrspRowsOf(f) ==
    {[permno |-> p, permco |-> f[p].permco, jdate |-> m,
      mthprc |-> f[p].mthprc, shrout |-> f[p].shrout, mthretx |-> Num(0)] :
        p \in DOMAIN f, m \in UNION {f[q].months : q \in DOMAIN f}}

CrspTable(f) ==
    SetToSeq({r \in CrspRowsOf(f) : r.jdate \in f[r.permno].months})

InitME ==
    /\ pc = "crsp"
    /\ \E f \in [1..MaxSec -> UNION {SecurityRows(p) : p \in 1..MaxSec}] :
          /\ \A p \in 1..MaxSec : f[p] \in SecurityRows(p)
          /\ crsp = CrspTable(f)
    /\ comp_in = <<>> /\ comp = <<>> /\ crsp2 = <<>>
    /\ crsp3 = <<>> /\ crsp_jun = <<>> /\ ccm_jun = <<>> /\ ccm1_jun = <<>> /\ ccm4 = <<>>
    /\ LaterInit

\* crsp2 = calculate_market_equity(crsp): works on a copy of the frame.
CalcMarketEquity ==
    /\ pc = "crsp"
    /\ crsp2' = calculate_market_equity(crsp)
    /\ pc' = "crsp2_done"
    /\ UNCHANGED <<comp_in, comp, crsp, crsp3, crsp_jun, ccm_jun, ccm1_jun, ccm4>>
    /\ UNCHANGED later

NextME == CalcMarketEquity

SpecME == InitME /\ [][NextME]_vars

\* The input rows of the entity and month of row r.
EntityMonth(r) == {i \in 1..Len(crsp) : SameGroup(crsp[i], r)}

RECURSIVE SumOver(_, _)
SumOver(S, f) ==
    IF S = {} THEN Num(0)
    ELSE LET i == CHOOSE j \in S : TRUE
         IN  RAdd(f[i], SumOver(S \ {i}, f))

\* C6: after calculate_market_equity there is exactly one output row for every
\* (month, parent entity) pair of the input, ties for the largest individual
\* market equity included.
C6_OneRowPerEntityMonth ==
    pc = "crsp2_done" =>
        \A i \in 1..Len(crsp) :
            Cardinality({k \in 1..Len(crsp2) : SameGroup(crsp2[k], crsp[i])}) = 1

\* C7: the row kept for a (month, parent entity) belongs to a security whose
\* individual market equity (price times shares, as the function computes it)
\* is the largest of the entity that month, and its me is the sum of the
\* individual market equities of all the entity's securities that month.
C7_CanonicalCarriesEntitySum ==
    pc = "crsp2_done" =>
        \A k \in 1..Len(crsp2) :
            LET g == EntityMonth(crsp2[k])
                Own == [i \in g |-> RMul(crsp[i].mthprc, crsp[i].shrout)]
            IN  /\ \E i \in g :
                      /\ crsp[i].permno = crsp2[k].permno
                      /\ \A j \in g : RGe(Own[i], Own[j])
                /\ crsp2[k].me = SumOver(g, Own)

\* An entity with two securities of different size in one month: the larger
\* one is kept and carries the sum.
C7_Witness ==
    /\ pc = "crsp2_done"
    /\ \E i, j \in 1..Len(crsp) :
          /\ SameGroup(crsp[i], crsp[j])
          /\ permno_me_of(crsp[i]) = Num(1)
          /\ permno_me_of(crsp[j]) = Num(3)
          /\ \E k \in 1..Len(crsp2) :
                /\ crsp2[k].permno = crsp[j].permno
                /\ crsp2[k].jdate = crsp[j].jdate
                /\ crsp2[k].me = Num(4)

\* C8: the individual market equity that enters me is |price| times shares
\* outstanding, whatever the sign of the recorded price.
C8_MarketEquityUsesAbsPrice ==
    pc = "crsp2_done" =>
        \A k \in 1..Len(crsp2) :
            LET g == EntityMonth(crsp2[k])
                AbsOwn == [i \in g |-> RMul(Num(Abs(crsp[i].mthprc[1])), crsp[i].shrout)]
            IN  /\ crsp2[k].me = SumOver(g, AbsOwn)
                /\ crsp2[k].me[1] >= 0

----------------------------------------------------------------------------
(* Stage 4: use_dec_market_equity.                                         *)

\* jdate + MonthEnd(-6) on a month-end date: six months back.
ffdate_of(jdate) == jdate - 6

\* The columns written into the frame handed in, before it is re-bound:
\* year, month, ffdate, ffyear, ffmonth and "1+retx".
crsp2_columns(r) ==
    r @@ [year |-> Year(r.jdate), month |-> Month(r.jdate),
          ffdate |-> ffdate_of(r.jdate),
          ffyear |-> Year(ffdate_of(r.jdate)),
          ffmonth |-> Month(ffdate_of(r.jdate)),
          one_plus_retx |-> RAdd(Num(1), r.mthretx)]

\* groupby(["permno", "ffyear"])["1+retx"].cumprod() at row i of the sorted
\* table: the product over the rows of the group up to i, missing cells
\* skipped; a missing cell stays missing.
RECURSIVE cumprod(_, _, _)
cumprod(s, i, n) ==
    IF n = 0 THEN Num(1)
    ELSE IF /\ s[n].permno = s[i].permno
            /\ s[n].ffyear = s[i].ffyear
            /\ ~IsNaN(s[n].one_plus_retx)
         THEN RMul(cumprod(s, i, n - 1), s[n].one_plus_retx)
         ELSE cumprod(s, i, n - 1)

cumretx_of(s, i) ==
    IF IsNaN(s[i].one_plus_retx) THEN NaN ELSE cumprod(s, i, i)

\* The row before row i in its permno group, 0 if there is none.
prev_row(s, i) ==
    LET before == {j \in 1..(i - 1) : s[j].permno = s[i].permno}
    IN  IF before = {} THEN 0 ELSE CHOOSE j \in before : \A k \in before : k <= j

\* groupby(["permno"])[col].shift(1); col[j] holds the column's cell of row j.
shift1(s, col, i) == IF prev_row(s, i) = 0 THEN NaN ELSE col[prev_row(s, i)]

\* L_me: the lagged market equity, and for the first row of a permno
\* me / (1+retx); with the mutant that lags nothing.
L_me_same_month(s, i) == s[i].me

L_me_of(s, i) ==
    where(cumcount([j \in 1..Len(s) |-> s[j].permno], i) = 0,
          RDiv(s[i].me, s[i].one_plus_retx),
          shift1(s, [j \in 1..Len(s) |-> s[j].me], i))

\* crsp2 sorted by permno and date, with cumretx, L_cumretx, L_me and count.
with_lags(t) ==
    LET a == [i \in 1..Len(t) |-> crsp2_columns(t[i])]
        s == sort_values(a, [i \in 1..Len(a) |-> PermnoDateKey(a[i])])
        c == [i \in 1..Len(s) |-> cumretx_of(s, i)]
    IN  [i \in 1..Len(s) |->
            s[i] @@ [cumretx |-> c[i],
                     L_cumretx |-> shift1(s, c, i),
                     L_me |-> L_me_of(s, i),
                     count |-> cumcount([j \in 1..Len(s) |-> s[j].permno], i)]]

\* pd.merge(crsp2, mebase, how="left", on=["permno", "ffyear"]): one row per
\* matching July row, or one row with a missing mebase.
RECURSIVE merge_mebase(_, _)
merge_mebase(s, n) ==
    IF n = 0 THEN <<>>
    ELSE LET julys == {j \in 1..Len(s) : /\ s[j].ffmonth = 1
                                         /\ s[j].permno = s[n].permno
                                         /\ s[j].ffyear = s[n].ffyear}
             idx   == SortIdx([j \in julys |-> <<Num(j)>>], julys)
             rows  == IF julys = {} THEN <<s[n] @@ [mebase |-> NaN]>>
                      ELSE [k \in 1..Len(idx) |-> s[n] @@ [mebase |-> s[idx[k]].L_me]]
         IN  merge_mebase(s, n - 1) \o rows

\* wt: L_me in July, mebase * L_cumretx in the other months; with the mutant
\* that uses the cumulative return index of the month itself.
wt_unlagged(r) == where(r.ffmonth = 1, r.L_me, RMul(r.mebase, r.cumretx))

wt_of(r) == where(r.ffmonth = 1, r.L_me, RMul(r.mebase, r.L_cumretx))

\* The monthly panel crsp3.
monthly_panel(t) ==
    LET s == with_lags(t)
        m == merge_mebase(s, Len(s))
    IN  [i \in 1..Len(m) |-> m[i] @@ [wt |-> wt_of(m[i])]]

\* decme: the December rows, their me as dec_me, attributed to the next year.
decme_of(a) ==
    LET dec == SelectSeq(a, LAMBDA r : r.month = 12)
    IN  [i \in 1..Len(dec) |->
            [permno |-> dec[i].permno, year |-> dec[i].year + 1,
             dec_me |-> dec[i].me]]

\* pd.merge(crsp3_jun, decme, how="inner", on=["permno", "year"]) and the
\* column selection of crsp_jun.
RECURSIVE merge_decme(_, _, _)
merge_decme(jun, decme, n) ==
    IF n = 0 THEN <<>>
    ELSE LET hit  == SelectSeq(decme, LAMBDA d : /\ d.permno = jun[n].permno
                                                 /\ d.year = jun[n].year)
             rows == [k \in 1..Len(hit) |->
                        [permno |-> jun[n].permno, jdate |-> jun[n].jdate,
                         me |-> jun[n].me, wt |-> jun[n].wt,
                         cumretx |-> jun[n].cumretx, mebase |-> jun[n].mebase,
                         L_me |-> jun[n].L_me, dec_me |-> hit[k].dec_me]]
         IN  merge_decme(jun, decme, n - 1) \o rows

june_panel(t) ==
    LET a   == [i \in 1..Len(t) |-> crsp2_columns(t[i])]
        jun == SelectSeq(monthly_panel(t), LAMBDA r : r.month = 6)
        m   == merge_decme(jun, decme_of(a), Len(jun))
    IN  drop_duplicates(sort_values(m, [i \in 1..Len(m) |-> PermnoDateKey(m[i])]))

\* Bound of the security histories of this stage.
MaxRec == 3

\* The months a history may hold a record for: January, June, July, August
\* and December of year 0, June, July and August of year 1.
HistoryMonths ==
    {Date(0, 1), Date(0, 6), Date(0, 7), Date(0, 8), Date(0, 12),
     Date(1, 6), Date(1, 7), Date(1, 8)}

MeVals == {Num(1), Num(3)}

\* mthretx of -1/2 and of 1: gross return factors 1/2 and 2.
RetxVals == {Rat(-1, 2), Num(1)}

\* A history of security p: one record for each month of `months`.
History(p, months, me, retx) ==
    LET rows == {[permno |-> p, permco |-> p, jdate |-> m,
                  mthretx |-> retx[m], me |-> me[m]] : m \in months}
        t    == SetToSeq(rows)
    IN  sort_values(t, [i \in 1..Len(t) |-> PermnoDateKey(t[i])])

\* The histories of security 1: up to MaxRec records with or without missing
\* months between them, or a record for every month from June of year 0 to
\* July of year 1 with one return throughout.
ShortHistories ==
    UNION {UNION {{History(1, months, me, retx) : me \in [months -> MeVals]} :
                      retx \in [months -> RetxVals]} :
               months \in {ms \in SUBSET HistoryMonths :
                              Cardinality(ms) \in 1..MaxRec}}

FullYearHistories ==
    {History(1, Date(0, 6)..Date(1, 7),
             [m \in Date(0, 6)..Date(1, 7) |-> Num(1)],
             [m \in Date(0, 6)..Date(1, 7) |-> x]) : x \in RetxVals \cup {Rat(1, 2)}}

\* Security 2, when the table holds it: July and August of year 0.
OtherHistories ==
    {<<>>,
     History(2, {Date(0, 7), Date(0, 8)},
             [m \in {Date(0, 7), Date(0, 8)} |-> Num(2)],
             [m \in {Date(0, 7), Date(0, 8)} |-> Num(1)])}

InitWt ==
    /\ pc = "crsp2"
    /\ \E h \in ShortHistories \cup FullYearHistories, o \in OtherHistories :
          crsp2 = h \o o
    /\ comp_in = <<>> /\ comp = <<>> /\ crsp = <<>>
    /\ crsp3 = <<>> /\ crsp_jun = <<>> /\ ccm_jun = <<>>
    /\ ccm1_jun = <<>> /\ ccm4 = <<>>
    /\ LaterInit

\* crsp3, crsp_jun = use_dec_market_equity(crsp2): the frame handed in gets
\* the calendar columns; the two results are new frames.
UseDecMarketEquity ==
    /\ pc = "crsp2"
    /\ crsp3' = monthly_panel(crsp2)
    /\ crsp_jun' = june_panel(crsp2)
    /\ crsp2' = [i \in 1..Len(crsp2) |-> crsp2_columns(crsp2[i])]
    /\ pc' = "crsp3_done"
    /\ UNCHANGED <<comp_in, comp, crsp, ccm_jun, ccm1_jun, ccm4>>
    /\ UNCHANGED later

NextWt == UseDecMarketEquity

SpecWt == InitWt /\ [][NextWt]_vars

\* The table handed to use_dec_market_equity with the market equity of the
\* record of row i of crsp3 replaced by v, everything else held fixed.
WithMe(i, v) ==
    [k \in 1..Len(crsp2) |->
        IF crsp2[k].permno = crsp3[i].permno /\ crsp2[k].jdate = crsp3[i].jdate
        THEN [crsp2[k] EXCEPT !.me = v]
        ELSE crsp2[k]]

\* The monthly panels use_dec_market_equity returns for that table (one
\* panel, as a set to quantify over).
PanelWithMe(i, v) == {monthly_panel(t) : t \in {WithMe(i, v)}}

\* C1 as claimed: the formation weight of every record, a security's first
\* record included, is unchanged when only that record's own market equity
\* is changed.
C1_NoLookAheadEveryRecord ==
    pc = "crsp3_done" =>
        \A i \in 1..Len(crsp3) : \A v \in MeVals :
            \A alt \in PanelWithMe(i, v) : alt[i].wt = crsp3[i].wt

\* C1 as amended: the formation weight of every record other than the first
\* record of its security is unchanged when only that record's own market
\* equity is changed.
C1_NoLookAheadAfterFirstRecord ==
    pc = "crsp3_done" =>
        \A i \in 1..Len(crsp3) : \A v \in MeVals :
            crsp3[i].count > 0 =>
                \A alt \in PanelWithMe(i, v) : alt[i].wt = crsp3[i].wt

\* A later record of a security, in July and in another month, has a weight,
\* and changing its market equity changes the next record's lagged market
\* equity but not its own weight.
C1_Witness ==
    /\ pc = "crsp3_done"
    /\ \E i, j \in 1..Len(crsp3) :
          /\ crsp3[i].count > 0 /\ crsp3[i].ffmonth = 1 /\ ~IsNaN(crsp3[i].wt)
          /\ crsp3[j].count > 0 /\ crsp3[j].ffmonth # 1 /\ ~IsNaN(crsp3[j].wt)
          /\ j = i + 1
          /\ \E v \in MeVals :
                /\ v # crsp3[i].me
                /\ \A alt \in PanelWithMe(i, v) :
                      /\ alt[j].L_me # crsp3[j].L_me
                      /\ alt[i].wt = crsp3[i].wt

\* The row of crsp3 that supplies the base weight of row i: row i itself in
\* July, else the July row of the same security and formation year (0 if the
\* history has none).
BaseRow(i) ==
    IF crsp3[i].ffmonth = 1 THEN i
    ELSE LET julys == {j \in 1..Len(crsp3) : /\ crsp3[j].permno = crsp3[i].permno
                                             /\ crsp3[j].ffyear = crsp3[i].ffyear
                                             /\ crsp3[j].ffmonth = 1}
         IN  IF julys = {} THEN 0 ELSE CHOOSE j \in julys : TRUE

\* C2: whenever a weight is defined and its July base weight was taken from
\* the security's preceding record, that record is dated at least 1 and at
\* most 12 months before the month of the weight, missing months or not.
C2_BaseObservationWithinYear ==
    pc = "crsp3_done" =>
        \A i \in 1..Len(crsp3) :
            LET b == BaseRow(i)
            IN  (~IsNaN(crsp3[i].wt) /\ b # 0 /\ crsp3[b].count > 0) =>
                    /\ crsp3[b - 1].permno = crsp3[b].permno
                    /\ crsp3[b].L_me = crsp3[b - 1].me
                    /\ crsp3[i].jdate - crsp3[b - 1].jdate >= 1
                    /\ crsp3[i].jdate - crsp3[b - 1].jdate <= 12

RECURSIVE ProdOver(_, _)
ProdOver(S, f) ==
    IF S = {} THEN Num(1)
    ELSE LET i == CHOOSE j \in S : TRUE
         IN  RMul(f[i], ProdOver(S \ {i}, f))

\* The records of the security of row i from July of its formation year up
\* to, not including, the month of row i.
SinceJuly(i) ==
    {j \in 1..Len(crsp3) : /\ crsp3[j].permno = crsp3[i].permno
                           /\ crsp3[j].jdate >= Date(crsp3[i].ffyear, 7)
                           /\ crsp3[j].jdate < crsp3[i].jdate}

\* C10: in July the formation weight is the lagged market equity; in every
\* other month of the formation year it is the July base weight times the
\* product of 1 + mthretx over the records from July to the preceding one,
\* and it is missing when the formation year has no July record.
C10_WeightIsBaseTimesLaggedIndex ==
    pc = "crsp3_done" =>
        \A i \in 1..Len(crsp3) :
            LET r     == crsp3[i]
                b     == BaseRow(i)
                gross == [j \in 1..Len(crsp3) |-> RAdd(Num(1), crsp3[j].mthretx)]
                lag   == IF i > 1 /\ crsp3[i - 1].permno = r.permno
                         THEN crsp3[i - 1].me
                         ELSE RDiv(r.me, gross[i])
            IN  IF Month(r.jdate) = 7 THEN r.wt = lag
                ELSE IF b = 0 THEN r.wt = NaN
                ELSE r.wt = RMul(crsp3[b].wt, ProdOver(SinceJuly(i), gross))

\* A security with a record every month and a return of 1/2 throughout: in
\* June, the twelfth month of the formation year, the cumulative return index
\* is (3/2)^12 and the weight is the base weight 1 times (3/2)^11.
C10_Witness ==
    /\ pc = "crsp3_done"
    /\ \E i \in 1..Len(crsp3) :
          /\ crsp3[i].jdate = Date(1, 6)
          /\ crsp3[i].ffmonth = 12
          /\ crsp3[i].mebase = Num(1)
          /\ crsp3[i].cumretx = <<531441, 4096>>
          /\ crsp3[i].wt = <<177147, 2048>>
          /\ Cardinality(SinceJuly(i)) = 11

----------------------------------------------------------------------------
(* Stage 6: assign_size_and_bm_portfolios.                                 *)

\* (beme > 0) & (me > 0) & (count >= 1)
eligible(r) == RGt(r.beme, Num(0)) /\ RGt(r.me, Num(0)) /\ r.count >= 1

\* The mutant that takes the breakpoints from every exchange.
nyse_any_exchange(t, jdate) ==
    SelectSeq(t, LAMBDA r : r.jdate = jdate /\ eligible(r))

\* The rows of ccm_jun at jdate that the breakpoints are taken from.
nyse_of(t, jdate) ==
    SelectSeq(t, LAMBDA r : r.jdate = jdate /\ r.primaryexch = "N" /\ eligible(r))

\* The cells x[1..n] in ascending order.
sorted_cells(x) ==
    LET idx == SortIdx([i \in 1..Len(x) |-> <<x[i]>>], 1..Len(x))
    IN  [k \in 1..Len(x) |-> x[idx[k]]]

\* Series.quantile(q) with q = tenths / 10, linear interpolation between
\* order statistics; missing for an empty series.
quantile(x, tenths) ==
    IF Len(x) = 0 THEN NaN
    ELSE LET s  == sorted_cells(x)
             h  == tenths * (Len(x) - 1)
             lo == (h \div 10) + 1
             hi == IF h % 10 = 0 THEN lo ELSE lo + 1
         IN  RAdd(s[lo], RMul(Rat(h % 10, 10), RSub(s[hi], s[lo])))

\* groupby(["jdate"])["me"].median()
median(x) == quantile(x, 5)

\* nyse_breaks joined back on jdate: sizemedn, bm30, bm70 at a date.
nyse_breaks(t, jdate) ==
    LET nyse == nyse_of(t, jdate)
        me   == [i \in 1..Len(nyse) |-> nyse[i].me]
        beme == [i \in 1..Len(nyse) |-> nyse[i].beme]
    IN  [sizemedn |-> median(me), bm30 |-> quantile(beme, 3),
         bm70 |-> quantile(beme, 7)]

size_bucket(row) ==
    IF REq(row.me, NaN) THEN ""
    ELSE IF RLe(row.me, row.sizemedn) THEN "S"
    ELSE "B"

book_to_market_bucket(row) ==
    IF RLe(Num(0), row.beme) /\ RLe(row.beme, row.bm30) THEN "L"
    ELSE IF RLe(row.beme, row.bm70) THEN "ME"
    ELSE IF RGt(row.beme, row.bm70) THEN "H"
    ELSE ""

\* ccm1_jun: the June panel with breakpoints, szport, bmport, posbm and
\* nonmissport.
labelled(t) ==
    LET dates == {t[i].jdate : i \in 1..Len(t)}
        brk   == [d \in dates |-> nyse_breaks(t, d)]
    IN  [i \in 1..Len(t) |->
            LET row == t[i] @@ brk[t[i].jdate]
                bm  == where(eligible(row), book_to_market_bucket(row), "")
            IN  row @@ [szport |-> where(eligible(row), size_bucket(row), ""),
                        bmport |-> bm,
                        posbm |-> where(eligible(row), 1, 0),
                        nonmissport |-> where(bm # "", 1, 0)]]

\* june["ffyear"] = june["jdate"].dt.year, with the mutant that applies the
\* labels a year late.
june_ffyear_next(r) == Year(r.jdate) + 1

june_ffyear(r) == Year(r.jdate)

\* pd.merge(crsp3, june, how="left", on=["permno", "ffyear"]) followed by the
\* filter (wt > 0) & (posbm == 1) & (nonmissport == 1).  A monthly row with no
\* June row gets a missing posbm and does not pass the filter.
\* The mutant that lets a record with no positive weight through.
keep_any_weight(r) == r.posbm = 1 /\ r.nonmissport = 1

\* ccm4: (wt > 0) & (posbm == 1) & (nonmissport == 1)
keep(r) == RGt(r.wt, Num(0)) /\ r.posbm = 1 /\ r.nonmissport = 1

RECURSIVE merge_june(_, _, _)
merge_june(monthly, june, n) ==
    IF n = 0 THEN <<>>
    ELSE LET hit  == SelectSeq(june, LAMBDA j : /\ j.permno = monthly[n].permno
                                                /\ june_ffyear(j) = monthly[n].ffyear)
             rows == [k \in 1..Len(hit) |->
                        monthly[n] @@ [szport |-> hit[k].szport,
                                       bmport |-> hit[k].bmport,
                                       posbm |-> hit[k].posbm,
                                       nonmissport |-> hit[k].nonmissport]]
         IN  merge_june(monthly, june, n - 1) \o
             SelectSeq(rows, keep)

assign_size_and_bm_portfolios(t, monthly) ==
    merge_june(monthly, labelled(t), Len(monthly))

\* Bound of the June panels: the number of NYSE securities beside security 1.
MaxNyse == 4

\* NYSE security 10 + k at June of year 0: seasoned, market equity 10 k,
\* book-to-market k.
NyseRow(k) ==
    [permno |-> 10 + k, jdate |-> Date(0, 6), primaryexch |-> "N",
     me |-> Num(10 * k), beme |-> Num(k), count |-> 1]

\* Security 1 at June of year 0: any exchange, any sign of market equity and
\* of book-to-market, seasoned or not.
FreeJuneRows ==
    [permno : {1}, jdate : {Date(0, 6)}, primaryexch : {"N", "Q"},
     me : {Num(-5), Num(0), Num(15), Num(25), Num(45)},
     beme : {NaN, Num(-1), Num(1), Rat(19, 10), Num(3), Num(5)},
     count : {0, 1}]

\* What else the panel holds of security 1: nothing, a second row at June of
\* year 0 (a second fundamentals record of the same calendar year), or a row
\* at June of year 1.
MoreJuneRows ==
    {<<>>} \cup
    {<<[permno |-> 1, jdate |-> d, primaryexch |-> "N",
        me |-> Num(15), beme |-> b, count |-> 1]>> :
        d \in {Date(0, 6), Date(1, 6)}, b \in {Num(1), Num(5)}}

\* The monthly panel: security 1 in June, July and December of year 0 and in
\* June and July of year 1, NYSE security 11 in July of year 0, each with the
\* formation year use_dec_market_equity gives it.
MonthlyRow(p, m, wt) ==
    [permno |-> p, jdate |-> m, ffyear |-> Year(ffdate_of(m)),
     mthret |-> Num(0), wt |-> wt]

MonthlyPanel(w) ==
    <<MonthlyRow(1, Date(0, 6), Num(2)), MonthlyRow(1, Date(0, 7), w),
      MonthlyRow(1, Date(0, 12), Num(2)), MonthlyRow(1, Date(1, 6), Num(2)),
      MonthlyRow(1, Date(1, 7), Num(2)), MonthlyRow(11, Date(0, 7), Num(2))>>

InitAssign ==
    /\ pc = "ccm_jun"
    /\ \E n \in 0..MaxNyse, r \in FreeJuneRows, more \in MoreJuneRows :
          ccm_jun = <<r>> \o more \o [k \in 1..n |-> NyseRow(k)]
    /\ \E w \in {NaN, Num(0), Num(2)} : crsp3 = MonthlyPanel(w)
    /\ comp_in = <<>> /\ comp = <<>> /\ crsp = <<>> /\ crsp2 = <<>>
    /\ crsp_jun = <<>> /\ ccm1_jun = <<>> /\ ccm4 = <<>>
    /\ LaterInit

\* ccm4 = assign_size_and_bm_portfolios(ccm_jun, crsp3)
AssignPortfolios ==
    /\ pc = "ccm_jun"
    /\ ccm1_jun' = labelled(ccm_jun)
    /\ ccm4' = assign_size_and_bm_portfolios(ccm_jun, crsp3)
    /\ pc' = "ccm4_done"
    /\ UNCHANGED <<comp_in, comp, crsp, crsp2, crsp3, crsp_jun, ccm_jun>>
    /\ UNCHANGED later

NextAssign == AssignPortfolios

SpecAssign == InitAssign /\ [][NextAssign]_vars

\* C22: in the panel that enters portfolio aggregation each (security,
\* month) pair occurs at most once, also when the linked June panel holds
\* two rows of one security at one formation date (two fundamentals records
\* of the same calendar year, or two valid links to the same security).
C22_OneRowPerSecurityMonth ==
    pc = "ccm4_done" =>
        \A k, l \in 1..Len(ccm4) :
            (ccm4[k].permno = ccm4[l].permno /\ ccm4[k].jdate = ccm4[l].jdate)
            => k = l

\* The formation year of month m: the year Y with July Y <= m <= June Y+1.
FormationYear(m) == IF Month(m) >= 7 THEN Year(m) ELSE Year(m) - 1

Labels(r) == <<r.szport, r.bmport>>

\* The label pairs the panel ccm4 holds for security p in month m.
LabelsAt(p, m) ==
    {Labels(ccm4[k]) : k \in {i \in 1..Len(ccm4) : /\ ccm4[i].permno = p
                                                   /\ ccm4[i].jdate = m}}

\* C3: every monthly record from July of Y to June of Y+1 in the panel
\* carries the size and value labels its security was assigned at June of Y,
\* every record of the window with a positive weight gets them, and the
\* labels are the same in every month of the window.
C3_LabelsFixedForFormationYear ==
    pc = "ccm4_done" =>
        /\ \A k \in 1..Len(ccm4) :
              \E j \in 1..Len(ccm1_jun) :
                  /\ ccm1_jun[j].permno = ccm4[k].permno
                  /\ ccm1_jun[j].jdate = Date(FormationYear(ccm4[k].jdate), 6)
                  /\ Labels(ccm1_jun[j]) = Labels(ccm4[k])
        /\ \A c \in 1..Len(crsp3) : \A j \in 1..Len(ccm1_jun) :
              ( /\ crsp3[c].wt[1] > 0
                /\ ccm1_jun[j].permno = crsp3[c].permno
                /\ ccm1_jun[j].jdate = Date(FormationYear(crsp3[c].jdate), 6)
                /\ ccm1_jun[j].posbm = 1 /\ ccm1_jun[j].nonmissport = 1 )
              => Labels(ccm1_jun[j]) \in LabelsAt(crsp3[c].permno, crsp3[c].jdate)
        /\ \A k, l \in 1..Len(ccm4) :
              ( /\ ccm4[k].permno = ccm4[l].permno
                /\ FormationYear(ccm4[k].jdate) = FormationYear(ccm4[l].jdate) )
              => LabelsAt(ccm4[k].permno, ccm4[k].jdate)
                    = LabelsAt(ccm4[l].permno, ccm4[l].jdate)

\* Security 1 carries its June-of-year-0 labels in July of year 0 and in June
\* of year 1, and other labels, those of June of year 1, in July of year 1.
C3_Witness ==
    /\ pc = "ccm4_done"
    /\ \E a, b, c \in 1..Len(ccm4) :
          /\ ccm4[a].permno = 1 /\ ccm4[a].jdate = Date(0, 7)
          /\ ccm4[b].permno = 1 /\ ccm4[b].jdate = Date(1, 6)
          /\ ccm4[c].permno = 1 /\ ccm4[c].jdate = Date(1, 7)
          /\ Labels(ccm4[a]) = Labels(ccm4[b])
          /\ Labels(ccm4[c]) # Labels(ccm4[b])

\* The rows of ccm_jun at date d with exchange NYSE, book-to-market > 0,
\* market equity > 0 and observation count >= 1.
NyseEligible(d) ==
    {i \in 1..Len(ccm_jun) :
        /\ ccm_jun[i].jdate = d
        /\ ccm_jun[i].primaryexch = "N"
        /\ ccm_jun[i].beme[1] > 0 /\ ccm_jun[i].beme[2] > 0
        /\ ccm_jun[i].me[1] > 0 /\ ccm_jun[i].me[2] > 0
        /\ ccm_jun[i].count >= 1}

\* The k-th smallest of the cells f[i], i in E, counted with multiplicity.
Kth(E, f, k) ==
    CHOOSE x \in {f[i] : i \in E} :
        /\ Cardinality({i \in E : RLt(f[i], x)}) < k
        /\ k <= Cardinality({i \in E : RLe(f[i], x)})

\* The percentile tenths / 10 of the cells f[i], i in E: linear interpolation
\* between the two neighbouring order statistics.
Percentile(E, f, tenths) ==
    LET n  == Cardinality(E)
        h  == tenths * (n - 1)
        lo == Kth(E, f, (h \div 10) + 1)
        hi == Kth(E, f, IF h % 10 = 0 THEN (h \div 10) + 1 ELSE (h \div 10) + 2)
    IN  RDiv(RAdd(RMul(Num(10 - (h % 10)), lo), RMul(Num(h % 10), hi)), Num(10))

\* C4: at every formation date the size breakpoint is the median of market
\* equity and bm30, bm70 are the 30th and 70th percentiles of book-to-market
\* over exactly the NYSE, positive book-to-market, positive market equity,
\* seasoned rows of that date (so no other row has any influence on them),
\* and the rows of every exchange are bucketed against these breakpoints.
C4_BreakpointsFromNyseEligible ==
    pc = "ccm4_done" =>
        \A i \in 1..Len(ccm1_jun) :
            LET r  == ccm1_jun[i]
                E  == NyseEligible(r.jdate)
                me == [j \in E |-> ccm_jun[j].me]
                bm == [j \in E |-> ccm_jun[j].beme]
            IN  IF E = {}
                THEN r.sizemedn = NaN /\ r.bm30 = NaN /\ r.bm70 = NaN
                ELSE /\ r.sizemedn = Percentile(E, me, 5)
                     /\ r.bm30 = Percentile(E, bm, 3)
                     /\ r.bm70 = Percentile(E, bm, 7)
                     /\ r.posbm = 1 =>
                           /\ (r.szport = "S") = RLe(r.me, Percentile(E, me, 5))
                           /\ (r.bmport = "L") = RLe(r.beme, Percentile(E, bm, 3))
                           /\ (r.bmport = "H") = RGt(r.beme, Percentile(E, bm, 7))

\* NYSE market equities 10, 20, 30, 40 give the breakpoint 25, next to a
\* seasoned NASDAQ security that is no part of the subset and is bucketed
\* against it.
C4_Witness ==
    /\ pc = "ccm4_done"
    /\ {ccm_jun[j].me : j \in NyseEligible(Date(0, 6))}
          = {Num(10), Num(20), Num(30), Num(40)}
    /\ Cardinality(NyseEligible(Date(0, 6))) = 4
    /\ \E i \in 1..Len(ccm1_jun) :
          /\ ccm1_jun[i].primaryexch = "Q"
          /\ ccm1_jun[i].jdate = Date(0, 6)
          /\ ccm1_jun[i].sizemedn = Num(25)
          /\ ccm1_jun[i].bm30 = Rat(19, 10)
          /\ ccm1_jun[i].bm70 = Rat(31, 10)
          /\ ccm1_jun[i].posbm = 1
          /\ ccm1_jun[i].szport = "S"

SixCodes ==
    {<<"S", "L">>, <<"S", "ME">>, <<"S", "H">>,
     <<"B", "L">>, <<"B", "ME">>, <<"B", "H">>}

\* book-to-market > 0, market equity > 0, observation count >= 1
Eligible(r) ==
    /\ r.beme[1] > 0 /\ r.beme[2] > 0
    /\ r.me[1] > 0 /\ r.me[2] > 0
    /\ r.count >= 1

\* C5 as claimed: every eligible June record is assigned one of the six
\* bucket codes, and every record of ccm4 has a positive weight and one of
\* the six codes.
C5_EveryEligibleInOneOfSix ==
    pc = "ccm4_done" =>
        /\ \A i \in 1..Len(ccm1_jun) :
              Eligible(ccm1_jun[i]) => Labels(ccm1_jun[i]) \in SixCodes
        /\ \A k \in 1..Len(ccm4) :
              /\ ccm4[k].wt[1] > 0 /\ ccm4[k].wt[2] > 0
              /\ Labels(ccm4[k]) \in SixCodes

\* C5 as amended: every eligible June record at a formation date that has at
\* least one NYSE eligible record is assigned one of the six bucket codes,
\* and every record of ccm4 has a positive weight and one of the six codes.
C5_EligibleInOneOfSixGivenBreakpoints ==
    pc = "ccm4_done" =>
        /\ \A i \in 1..Len(ccm1_jun) :
              (Eligible(ccm1_jun[i]) /\ NyseEligible(ccm1_jun[i].jdate) # {})
                  => Labels(ccm1_jun[i]) \in SixCodes
        /\ \A k \in 1..Len(ccm4) :
              /\ ccm4[k].wt[1] > 0 /\ ccm4[k].wt[2] > 0
              /\ Labels(ccm4[k]) \in SixCodes

\* An eligible NASDAQ security is bucketed against NYSE breakpoints and its
\* records enter ccm4, while one of its monthly records has no positive
\* weight and stays out.
C5_Witness ==
    /\ pc = "ccm4_done"
    /\ \E i \in 1..Len(ccm1_jun) :
          /\ ccm1_jun[i].primaryexch = "Q"
          /\ Eligible(ccm1_jun[i])
          /\ NyseEligible(ccm1_jun[i].jdate) # {}
          /\ Labels(ccm1_jun[i]) \in SixCodes
          /\ \E k \in 1..Len(ccm4) : ccm4[k].permno = ccm1_jun[i].permno
    /\ \E c \in 1..Len(crsp3) :
          /\ crsp3[c].wt = Num(0)
          /\ \A k \in 1..Len(ccm4) :
                ~(ccm4[k].permno = crsp3[c].permno /\ ccm4[k].jdate = crsp3[c].jdate)

----------------------------------------------------------------------------
(* Stage 5: merge_CRSP_and_Compustat.                                      *)

\* A missing date, and a missing permno of a left join; every comparison
\* with a missing date is false.
NaT == -1

NoPermno == 0

DateLe(a, b) == a # NaT /\ b # NaT /\ a <= b

\* ccm["linkenddt"].fillna(pd.to_datetime("today")) on one link row.
fill_linkenddt(l, now) ==
    [l EXCEPT !.linkenddt = IF l.linkenddt = NaT THEN now ELSE l.linkenddt]

\* datadate + YearEnd(0): December of the calendar year of datadate.
yearend_of(datadate) == Date(Year(datadate), 12)

\* yearend + MonthEnd(6): June of the following year; with the mutant that
\* stays in the calendar year of datadate.
formation_date_same_year(datadate) == yearend_of(datadate) - 6

formation_date(datadate) == yearend_of(datadate) + 6

\* pd.merge(comp[["gvkey", "datadate", "be", "count"]], ccm, how="left",
\* on=["gvkey"]) with yearend and jdate: ccm1.
RECURSIVE merge_links(_, _, _)
merge_links(fund, links, n) ==
    IF n = 0 THEN <<>>
    ELSE LET c    == [gvkey |-> fund[n].gvkey, datadate |-> fund[n].datadate,
                      be |-> fund[n].be, count |-> fund[n].count,
                      yearend |-> yearend_of(fund[n].datadate),
                      jdate |-> formation_date(fund[n].datadate)]
             hit  == SelectSeq(links, LAMBDA l : l.gvkey = c.gvkey)
             rows == IF hit = <<>>
                     THEN <<c @@ [permno |-> NoPermno, linkdt |-> NaT,
                                  linkenddt |-> NaT]>>
                     ELSE [k \in 1..Len(hit) |->
                             c @@ [permno |-> hit[k].permno,
                                   linkdt |-> hit[k].linkdt,
                                   linkenddt |-> hit[k].linkenddt]]
         IN  merge_links(fund, links, n - 1) \o rows

\* (jdate >= linkdt) & (jdate <= linkenddt), with the mutant that does not
\* look at the start of the link.
link_valid_any_start(r) == DateLe(r.jdate, r.linkenddt)

link_valid(r) == DateLe(r.linkdt, r.jdate) /\ DateLe(r.jdate, r.linkenddt)

\* ccm_jun["be"] * 1000 / ccm_jun["dec_me"]
beme_of(r) == RDiv(RMul(r.be, Num(1000)), r.dec_me)

\* pd.merge(crsp_jun, ccm2, how="inner", on=["permno", "jdate"]) with beme.
RECURSIVE merge_ccm2(_, _, _)
merge_ccm2(jun, ccm2, n) ==
    IF n = 0 THEN <<>>
    ELSE LET hit  == SelectSeq(ccm2, LAMBDA c : /\ c.permno = jun[n].permno
                                               /\ c.jdate = jun[n].jdate)
             rows == [k \in 1..Len(hit) |->
                        LET r == jun[n] @@ [gvkey |-> hit[k].gvkey,
                                            datadate |-> hit[k].datadate,
                                            yearend |-> hit[k].yearend,
                                            be |-> hit[k].be,
                                            count |-> hit[k].count]
                        IN  r @@ [beme |-> beme_of(r)]]
         IN  merge_ccm2(jun, ccm2, n - 1) \o rows

merge_CRSP_and_Compustat(jun, fund, links, now) ==
    LET filled == [i \in 1..Len(links) |-> fill_linkenddt(links[i], now)]
        ccm1   == merge_links(fund, filled, Len(fund))
        ccm2   == SelectSeq(ccm1, link_valid)
    IN  merge_ccm2(jun, ccm2, Len(jun))

\* The months a security of the linking stage may have a record for.
LinkMonths == {Date(0, 12), Date(1, 6), Date(1, 12), Date(2, 6)}

\* A history of security p with a company-level market equity that differs
\* from month to month and from security to security.
LinkHistory(p, months) ==
    History(p, months, [m \in months |-> Num(100 * p + m)],
            [m \in months |-> Num(0)])

\* The fundamentals records a table may hold, as <<gvkey, datadate>>: entity 1
\* with a mid-year and a year-end record of year 0 and a record of year 1,
\* entity 2 with a record of year 0.
FundKeys ==
    {<<1, Date(0, 6)>>, <<1, Date(0, 12)>>, <<1, Date(1, 12)>>, <<2, Date(0, 12)>>}

\* The loaded fundamentals row of a key; entity 2 has no stockholders'
\* equity, so no book equity.
FundRow(k) ==
    [gvkey |-> k[1], datadate |-> k[2], year |-> Year(k[2]),
     seq |-> IF k[1] = 1 THEN Num(k[2] + 1) ELSE Num(0),
     txditc |-> NaN, pstkrv |-> NaN, pstkl |-> NaN, pstk |-> NaN]

\* The fundamentals table after calc_book_equity_and_years_in_compustat.
FundTable(keys) ==
    calc_book_equity_and_years_in_compustat(SetToSeq({FundRow(k) : k \in keys}))

\* The link of entity 1 to security 1: started before or after June of year
\* 1, ended in May or June of year 1 or of year 2, or still open.
FreeLinks ==
    [gvkey : {1}, permno : {1}, linkdt : {Date(0, 1), Date(1, 7)},
     linkenddt : {NaT, Date(1, 5), Date(1, 6), Date(2, 6)}]

\* The other links a table may hold: entity 2 to security 2, still open, and
\* entity 1 to security 2 up to June of year 1.
OtherLinks ==
    {[gvkey |-> 2, permno |-> 2, linkdt |-> Date(0, 1), linkenddt |-> NaT],
     [gvkey |-> 1, permno |-> 2, linkdt |-> Date(0, 1), linkenddt |-> Date(1, 6)]}

\* Bound of the link tables: the number of links.
MaxLinks == 2

LinkTables ==
    {<<>>} \cup {<<l>> \o o : l \in FreeLinks, o \in Tables(OtherLinks, MaxLinks - 1)}

\* The times of a run, as the last month whose end lies before the run: a
\* run late in June of year 1, after the month's last trading day, and a run
\* in February of year 3.
Clock == {Date(1, 5), Date(3, 1)}

\* No table holds a date after the end of the month of the run.
Loaded(now, hist, keys, links) ==
    /\ \A i \in 1..Len(hist) : hist[i].jdate <= now + 1
    /\ \A k \in keys : k[2] <= now + 1
    /\ \A i \in 1..Len(links) :
          links[i].linkdt <= now + 1 /\ links[i].linkenddt <= now + 1

InitLink ==
    /\ pc = "crsp2"
    /\ \E now \in Clock, ms \in SUBSET LinkMonths,
          other \in {{}, {Date(0, 12), Date(1, 6)}},
          keys \in SUBSET FundKeys, links \in LinkTables :
          /\ Loaded(now, LinkHistory(1, ms) \o LinkHistory(2, other), keys, links)
          /\ today = now
          /\ crsp2 = LinkHistory(1, ms) \o LinkHistory(2, other)
          /\ comp = FundTable(keys)
          /\ ccm = links
    /\ comp_in = <<>> /\ crsp = <<>>
    /\ crsp3 = <<>> /\ crsp_jun = <<>> /\ ccm_jun = <<>>
    /\ ccm1_jun = <<>> /\ ccm4 = <<>>
    /\ vwret = <<>> /\ vwret_n = <<>> /\ ff_factors = <<>> /\ ff_nfirms = <<>>
    /\ err = "" /\ row_in = <<>> /\ value_out = ""
    /\ crsp_in = <<>> /\ csv_content = <<>> /\ sections = <<>>

\* ccm_jun = merge_CRSP_and_Compustat(crsp_jun, comp, ccm): the link table
\* handed in gets its missing linkenddt filled; the result is a new frame.
MergeCrspAndCompustat ==
    /\ pc = "crsp3_done"
    /\ ccm_jun' = merge_CRSP_and_Compustat(crsp_jun, comp, ccm, today)
    /\ ccm' = [i \in 1..Len(ccm) |-> fill_linkenddt(ccm[i], today)]
    /\ pc' = "ccm_jun_done"
    /\ UNCHANGED <<comp_in, comp, crsp, crsp2, crsp3, crsp_jun, ccm1_jun, ccm4>>
    /\ UNCHANGED <<today, vwret, vwret_n, ff_factors, ff_nfirms, err, row_in, value_out>>
    /\ UNCHANGED <<crsp_in, csv_content, sections>>

NextLink == UseDecMarketEquity \/ MergeCrspAndCompustat

SpecLink == InitLink /\ [][NextLink]_vars

\* C13: the linked June panel, and with it every output table, depends on
\* the input tables only: a run at any other time returns the same panel.
C13_OutputIndependentOfRunTime ==
    [][pc = "crsp3_done" =>
          \A t \in Clock :
              ccm_jun' = merge_CRSP_and_Compustat(crsp_jun, comp, ccm, t)]_vars

\* C15: when a stage function returns, every table passed to it has the
\* columns and the values it had before the call.
C15_StagesLeaveInputsUnchanged ==
    [][/\ pc = "comp" => comp_in' = comp_in
       /\ pc = "crsp" => crsp' = crsp
       /\ pc = "crsp2" => crsp2' = crsp2
       /\ pc = "crsp3_done" => (crsp_jun' = crsp_jun /\ comp' = comp /\ ccm' = ccm)
       /\ pc = "ccm_jun" => (ccm_jun' = ccm_jun /\ crsp3' = crsp3)]_vars

\* C16: every row of the linked June panel, dated June of Y+1, carries the
\* book equity of a fundamentals record whose datadate lies in calendar year
\* Y and, as dec_me, the market equity of the same security in December of
\* Y, and beme is formed of these two; a security with no record in December
\* of Y has no row at June of Y+1.
C16_DecemberAlignedBookToMarket ==
    pc = "ccm_jun_done" =>
        /\ \A i \in 1..Len(ccm_jun) :
              LET r == ccm_jun[i]
                  Y == Year(r.jdate) - 1
              IN  /\ Month(r.jdate) = 6
                  /\ Year(r.datadate) = Y
                  /\ \E c \in 1..Len(comp) :
                        /\ comp[c].gvkey = r.gvkey
                        /\ comp[c].datadate = r.datadate
                        /\ comp[c].be = r.be
                  /\ \E d \in 1..Len(crsp2) :
                        /\ crsp2[d].permno = r.permno
                        /\ crsp2[d].jdate = Date(Y, 12)
                        /\ crsp2[d].me = r.dec_me
                        /\ r.beme = RDiv(RMul(r.be, Num(1000)), crsp2[d].me)
        /\ \A j \in 1..Len(crsp2) :
              (\A d \in 1..Len(crsp2) :
                  ~(/\ crsp2[d].permno = crsp2[j].permno
                    /\ crsp2[d].jdate = Date(Year(crsp2[j].jdate) - 1, 12)))
              => \A i \in 1..Len(ccm_jun) :
                     ~(/\ ccm_jun[i].permno = crsp2[j].permno
                       /\ ccm_jun[i].jdate = crsp2[j].jdate)

\* Security 1 at June of year 1 is paired with the mid-year fundamentals
\* record of year 0 and its own December market equity of year 0, and is
\* absent at June of year 2 for want of a December record of year 1, though
\* a fundamentals record of year 1 and an open link are there.
C16_Witness ==
    /\ pc = "ccm_jun_done"
    /\ \E i \in 1..Len(ccm_jun) :
          /\ ccm_jun[i].permno = 1 /\ ccm_jun[i].jdate = Date(1, 6)
          /\ ccm_jun[i].datadate = Date(0, 6)
          /\ ccm_jun[i].dec_me = Num(100 + Date(0, 12))
    /\ \E j \in 1..Len(crsp2) : crsp2[j].permno = 1 /\ crsp2[j].jdate = Date(2, 6)
    /\ \A j \in 1..Len(crsp2) : ~(crsp2[j].permno = 1 /\ crsp2[j].jdate = Date(1, 12))
    /\ \E c \in 1..Len(comp) : comp[c].gvkey = 1 /\ comp[c].datadate = Date(1, 12)
    /\ \E l \in 1..Len(ccm) :
          /\ ccm[l].gvkey = 1 /\ ccm[l].permno = 1
          /\ ccm[l].linkdt = Date(0, 1) /\ ccm[l].linkenddt = today
    /\ \A i \in 1..Len(ccm_jun) : ccm_jun[i].jdate # Date(2, 6)

\* The formation date of a fundamentals record: June of the year after the
\* calendar year of its datadate.
FormationDate(c) == Date(Year(c.datadate) + 1, 6)

\* Link l is valid for fundamentals record c at a run at time now.
ValidLink(l, c, now) ==
    /\ l.gvkey = c.gvkey
    /\ l.linkdt # NaT /\ l.linkdt <= FormationDate(c)
    /\ FormationDate(c) <= (IF l.linkenddt = NaT THEN now ELSE l.linkenddt)

\* C17: a row of the linked June panel comes from a fundamentals record and
\* a link with link start <= formation date <= link end, a missing link end
\* read as the time of the run; every such pair with a June record of the
\* linked security at the formation date contributes a row; nothing else
\* does, and no error is raised.
C17_OnlyLinksValidAtFormation ==
    [][pc = "crsp3_done" =>
          /\ \A i \in 1..Len(ccm_jun') :
                \E c \in 1..Len(comp), l \in 1..Len(ccm) :
                    /\ comp[c].gvkey = ccm_jun'[i].gvkey
                    /\ comp[c].datadate = ccm_jun'[i].datadate
                    /\ ccm[l].permno = ccm_jun'[i].permno
                    /\ ccm_jun'[i].jdate = FormationDate(comp[c])
                    /\ ValidLink(ccm[l], comp[c], today)
          /\ \A c \in 1..Len(comp), l \in 1..Len(ccm), j \in 1..Len(crsp_jun) :
                ( /\ ValidLink(ccm[l], comp[c], today)
                  /\ crsp_jun[j].permno = ccm[l].permno
                  /\ crsp_jun[j].jdate = FormationDate(comp[c]) )
                => \E i \in 1..Len(ccm_jun') :
                       /\ ccm_jun'[i].gvkey = comp[c].gvkey
                       /\ ccm_jun'[i].datadate = comp[c].datadate
                       /\ ccm_jun'[i].permno = ccm[l].permno
          /\ err' = ""]_vars

\* A run with a link of entity 1 to security 1 that starts after June of
\* year 1 and is still open (its end filled with the time of the run): the
\* security has a June record and the entity a fundamentals record for both
\* formation dates, and the panel has a row at June of year 2 and none at
\* June of year 1.
C17_Witness ==
    /\ pc = "ccm_jun_done"
    /\ \E l \in 1..Len(ccm) :
          /\ ccm[l].gvkey = 1 /\ ccm[l].permno = 1
          /\ ccm[l].linkdt = Date(1, 7) /\ ccm[l].linkenddt = today
    /\ \A l \in 1..Len(ccm) : ccm[l].permno = 1 => ccm[l].linkdt = Date(1, 7)
    /\ \E j, k \in 1..Len(crsp_jun) :
          /\ crsp_jun[j].permno = 1 /\ crsp_jun[j].jdate = Date(1, 6)
          /\ crsp_jun[k].permno = 1 /\ crsp_jun[k].jdate = Date(2, 6)
    /\ \E c, d \in 1..Len(comp) :
          /\ comp[c].gvkey = 1 /\ comp[c].datadate = Date(0, 12)
          /\ comp[d].gvkey = 1 /\ comp[d].datadate = Date(1, 12)
    /\ \E i \in 1..Len(ccm_jun) :
          ccm_jun[i].permno = 1 /\ ccm_jun[i].jdate = Date(2, 6)
    /\ \A i \in 1..Len(ccm_jun) :
          ~(ccm_jun[i].permno = 1 /\ ccm_jun[i].jdate = Date(1, 6))

----------------------------------------------------------------------------
(* Stage 7: the value-weighted returns and firm counts of                  *)
(* create_fama_french_portfolios.                                          *)

\* The order of the labels as strings: "" < "B" < "S" and "" < "H" < "L" < "ME".
SzRank(sz) == IF sz = "B" THEN 1 ELSE IF sz = "S" THEN 2 ELSE 0

BmRank(bm) == IF bm = "H" THEN 1 ELSE IF bm = "L" THEN 2 ELSE IF bm = "ME" THEN 3 ELSE 0

GroupKey(g) == <<Num(g.jdate), Num(SzRank(g.szport)), Num(BmRank(g.bmport))>>

\* groupby(["jdate", "szport", "bmport"]): the group keys in sorted order.
groups(t) ==
    LET keys == {[jdate |-> t[i].jdate, szport |-> t[i].szport,
                  bmport |-> t[i].bmport] : i \in 1..Len(t)}
        ks   == SetToSeq(keys)
    IN  sort_values(ks, [i \in 1..Len(ks) |-> GroupKey(ks[i])])

\* The rows of one group.
group_rows(t, g) ==
    SelectSeq(t, LAMBDA r : /\ r.jdate = g.jdate /\ r.szport = g.szport
                            /\ r.bmport = g.bmport)

\* Series.sum(): missing cells are skipped, the empty sum is 0.
RECURSIVE nansum(_)
nansum(x) ==
    IF x = <<>> THEN Num(0)
    ELSE IF IsNaN(Head(x)) THEN nansum(Tail(x))
    ELSE RAdd(Head(x), nansum(Tail(x)))

\* wavg(group, "mthret", "wt"): (d * w).sum() / w.sum().  Float division
\* raises no ZeroDivisionError; 0 / 0 is missing.
wavg(group) ==
    LET dw == [i \in 1..Len(group) |-> RMul(group[i].mthret, group[i].wt)]
        w  == [i \in 1..Len(group) |-> group[i].wt]
    IN  RDiv(nansum(dw), nansum(w))

\* groupby(...)["mthret"].count(): the number of non-missing returns.
count_of(group) ==
    Cardinality({i \in 1..Len(group) : ~IsNaN(group[i].mthret)})

\* vwret with sbport = szport + bmport.
value_weighted_returns(t) ==
    LET gs == groups(t)
    IN  [k \in 1..Len(gs) |->
            gs[k] @@ [vwret |-> wavg(group_rows(t, gs[k])),
                      sbport |-> gs[k].szport \o gs[k].bmport]]

\* vwret_n with sbport = szport + bmport.
firm_counts(t) ==
    LET gs == groups(t)
    IN  [k \in 1..Len(gs) |->
            gs[k] @@ [n_firms |-> Num(count_of(group_rows(t, gs[k]))),
                      sbport |-> gs[k].szport \o gs[k].bmport]]

----------------------------------------------------------------------------
(* Stage 8: create_factors_from_portfolios.                                *)

\* DataFrame.pivot(index="jdate", columns="sbport", values=...): one row per
\* jdate of the table, one column per sbport of the table, missing where the
\* table has no row; val[i] holds the value of row i.
pivot(t, val) ==
    LET dates == {t[i].jdate : i \in 1..Len(t)}
        cols  == {t[i].sbport : i \in 1..Len(t)}
        ds    == SortIdx([d \in dates |-> <<Num(d)>>], dates)
        at(d, c) == {i \in 1..Len(t) : t[i].jdate = d /\ t[i].sbport = c}
    IN  [k \in 1..Len(ds) |->
            [jdate |-> ds[k],
             cells |-> [c \in cols |->
                          IF at(ds[k], c) = {} THEN NaN
                          ELSE val[CHOOSE i \in at(ds[k], c) : TRUE]]]]

\* The columns of a pivoted table beside jdate.
columns(wide) == IF wide = <<>> THEN {} ELSE DOMAIN wide[1].cells

\* The columns the function reads; reading a column the table does not have
\* raises KeyError.
BucketColumns == {"BH", "SH", "BL", "SL", "BME", "SME"}

\* ff_factors["HML"] = H - L with H = (BH + SH) / 2, L = (BL + SL) / 2.
hml_of(c) ==
    LET H == RDiv(RAdd(c["BH"], c["SH"]), Num(2))
        L == RDiv(RAdd(c["BL"], c["SL"]), Num(2))
    IN  RSub(H, L)

\* ff_factors["SMB"] = S - B with B = (BL + BME + BH) / 3 and
\* S = (SL + SME + SH) / 3; with the mutant that takes big minus small.
smb_big_minus_small(c) ==
    LET B == RDiv(RAdd(RAdd(c["BL"], c["BME"]), c["BH"]), Num(3))
        S == RDiv(RAdd(RAdd(c["SL"], c["SME"]), c["SH"]), Num(3))
    IN  RSub(B, S)

smb_of(c) ==
    LET B == RDiv(RAdd(RAdd(c["BL"], c["BME"]), c["BH"]), Num(3))
        S == RDiv(RAdd(RAdd(c["SL"], c["SME"]), c["SH"]), Num(3))
    IN  RSub(S, B)

\* The firm-count columns HML = H + L and SMB = B + S.
hml_count_of(c) ==
    LET H == RAdd(c["SH"], c["BH"])
        L == RAdd(c["SL"], c["BL"])
    IN  RAdd(H, L)

smb_count_of(c) ==
    LET B == RAdd(RAdd(c["BL"], c["BME"]), c["BH"])
        S == RAdd(RAdd(c["SL"], c["SME"]), c["SH"])
    IN  RAdd(B, S)

\* The two tables the function returns when every bucket column is there.
create_factors_from_portfolios(vw, vwn) ==
    LET wide   == pivot(vw, [i \in 1..Len(vw) |-> vw[i].vwret])
        wide_n == pivot(vwn, [i \in 1..Len(vwn) |-> vwn[i].n_firms])
    IN  [ff_factors |->
            [k \in 1..Len(wide) |->
                [date |-> wide[k].jdate, SMB |-> smb_of(wide[k].cells),
                 HML |-> hml_of(wide[k].cells)]],
         ff_nfirms |->
            [k \in 1..Len(wide_n) |->
                [date |-> wide_n[k].jdate, SMB |-> smb_count_of(wide_n[k].cells),
                 HML |-> hml_count_of(wide_n[k].cells),
                 TOTAL |-> smb_count_of(wide_n[k].cells)]]]

\* Bound of the aggregated panels: the number of records beside the base
\* records.
MaxFree == 2

\* The return of the base record of a bucket: SL 1, SME 2, SH 3, BL 4, BME 5,
\* BH 6.
BaseReturn(c) ==
    Num((IF c[1] = "S" THEN 0 ELSE 3)
        + (IF c[2] = "L" THEN 1 ELSE IF c[2] = "ME" THEN 2 ELSE 3))

\* One record of weight 1 in July of year 0 for every bucket of `codes`.
BaseRecords(codes) ==
    LET cs == SetToSeq(codes)
    IN  [k \in 1..Len(cs) |->
            [permno |-> 10 + k, jdate |-> Date(0, 7), szport |-> cs[k][1],
             bmport |-> cs[k][2], mthret |-> BaseReturn(cs[k]), wt |-> Num(1)]]

\* Further records of weight 3 in July or August of year 0, in any bucket,
\* with a return of 1/2 or a missing return.
FreeRecords ==
    [jdate : {Date(0, 7), Date(0, 8)}, szport : {"S", "B"},
     bmport : {"L", "ME", "H"}, mthret : {NaN, Rat(1, 2)}, wt : {Num(3)}]

\* The subsets of S with at most n elements.
RECURSIVE SubsetsUpTo(_, _)
SubsetsUpTo(S, n) ==
    IF n = 0 THEN {{}}
    ELSE LET smaller == SubsetsUpTo(S, n - 1)
         IN  smaller \cup {T \cup {x} : T \in smaller, x \in S}

\* The panels that enter aggregation: every record has a positive weight
\* and one of the six bucket codes; at most one bucket has no base record.
AggregationPanels ==
    {BaseRecords(SixCodes \ D) \o
     LET fs == SetToSeq(F)
     IN  [k \in 1..Len(fs) |-> fs[k] @@ [permno |-> 20 + k]] :
        D \in {E \in SUBSET SixCodes : Cardinality(E) <= 1},
        F \in SubsetsUpTo(FreeRecords, MaxFree)}

InitFactors ==
    /\ pc = "ccm4_done"
    /\ ccm4 \in AggregationPanels
    /\ comp_in = <<>> /\ comp = <<>> /\ crsp = <<>> /\ crsp2 = <<>>
    /\ crsp3 = <<>> /\ crsp_jun = <<>> /\ ccm_jun = <<>> /\ ccm1_jun = <<>>
    /\ LaterInit

\* The value-weighted returns and firm counts at the end of
\* create_fama_french_portfolios.
AggregatePortfolios ==
    /\ pc = "ccm4_done"
    /\ vwret' = value_weighted_returns(ccm4)
    /\ vwret_n' = firm_counts(ccm4)
    /\ pc' = "vwret_done"
    /\ UNCHANGED <<comp_in, comp, crsp, crsp2, crsp3, crsp_jun, ccm_jun, ccm1_jun, ccm4>>
    /\ UNCHANGED <<ccm, today, ff_factors, ff_nfirms, err, row_in, value_out>>
    /\ UNCHANGED <<crsp_in, csv_content, sections>>

\* ff_factors, ff_nfirms = create_factors_from_portfolios(vwret, vwret_n):
\* the tables, or KeyError when the pivoted table lacks a bucket column.
CreateFactors ==
    /\ pc = "vwret_done"
    /\ IF BucketColumns \subseteq
             columns(pivot(vwret, [i \in 1..Len(vwret) |-> vwret[i].vwret]))
       THEN /\ ff_factors' = create_factors_from_portfolios(vwret, vwret_n).ff_factors
            /\ ff_nfirms' = create_factors_from_portfolios(vwret, vwret_n).ff_nfirms
            /\ err' = ""
            /\ pc' = "factors_done"
       ELSE /\ err' = "KeyError"
            /\ pc' = "raised"
            /\ UNCHANGED <<ff_factors, ff_nfirms>>
    /\ UNCHANGED <<comp_in, comp, crsp, crsp2, crsp3, crsp_jun, ccm_jun, ccm1_jun, ccm4>>
    /\ UNCHANGED <<ccm, today, vwret, vwret_n, row_in, value_out>>
    /\ UNCHANGED <<crsp_in, csv_content, sections>>

NextFactors == AggregatePortfolios \/ CreateFactors

SpecFactors == InitFactors /\ [][NextFactors]_vars

\* The rows of table t for bucket c = <<size label, value label>> in month d.
BucketRows(t, d, c) ==
    {i \in 1..Len(t) : t[i].jdate = d /\ t[i].szport = c[1] /\ t[i].bmport = c[2]}

\* The value-weighted return of bucket c in month d, missing if the bucket
\* has no row that month.
BucketReturn(d, c) ==
    IF BucketRows(vwret, d, c) = {} THEN NaN
    ELSE vwret[CHOOSE i \in BucketRows(vwret, d, c) : TRUE].vwret

\* The firm count of bucket c in month d, 0 if the bucket has no row.
BucketCount(d, c) ==
    IF BucketRows(vwret_n, d, c) = {} THEN Num(0)
    ELSE vwret_n[CHOOSE i \in BucketRows(vwret_n, d, c) : TRUE].n_firms

AllSixDefined(d) == \A c \in SixCodes : ~IsNaN(BucketReturn(d, c))

\* C11: for every month in which all six bucket returns are defined the
\* factor table has a row with HML = (BH + SH)/2 - (BL + SL)/2 and
\* SMB = (SL + SME + SH)/3 - (BL + BME + BH)/3, and every row of the factor
\* table has exactly the columns date, SMB, HML.
C11_FactorsFromSixBuckets ==
    pc \in {"factors_done", "raised"} =>
        /\ \A i \in 1..Len(vwret) :
              AllSixDefined(vwret[i].jdate) =>
                  LET d  == vwret[i].jdate
                      SL == BucketReturn(d, <<"S", "L">>)
                      SM == BucketReturn(d, <<"S", "ME">>)
                      SH == BucketReturn(d, <<"S", "H">>)
                      BL == BucketReturn(d, <<"B", "L">>)
                      BM == BucketReturn(d, <<"B", "ME">>)
                      BH == BucketReturn(d, <<"B", "H">>)
                  IN  /\ pc = "factors_done"
                      /\ Cardinality({k \in 1..Len(ff_factors) : ff_factors[k].date = d}) = 1
                      /\ \A k \in 1..Len(ff_factors) :
                            ff_factors[k].date = d =>
                                /\ ff_factors[k].HML =
                                       RDiv(RSub(RAdd(BH, SH), RAdd(BL, SL)), Num(2))
                                /\ ff_factors[k].SMB =
                                       RDiv(RSub(RAdd(RAdd(SL, SM), SH),
                                                 RAdd(RAdd(BL, BM), BH)), Num(3))
        /\ \A k \in 1..Len(ff_factors) :
              DOMAIN ff_factors[k] = {"date", "SMB", "HML"}

\* Bucket returns SL 1, SME 2, SH 3, BL 4, BME 5, BH 6 in July give SMB -3
\* and HML 2, next to a month with a missing bucket and no factor value.
C11_Witness ==
    /\ pc = "factors_done"
    /\ Len(ff_factors) = 2
    /\ AllSixDefined(Date(0, 7))
    /\ BucketReturn(Date(0, 7), <<"B", "H">>) = Num(6)
    /\ BucketReturn(Date(0, 7), <<"S", "L">>) = Num(1)
    /\ ff_factors[1] = [date |-> Date(0, 7), SMB |-> Num(-3), HML |-> Num(2)]
    /\ ff_factors[2].date = Date(0, 8) /\ ff_factors[2].SMB = NaN

\* C12: in every month of the firm-count table TOTAL and SMB are the sum of
\* the six bucket firm counts of the month and HML is the sum of the SH, BH,
\* SL and BL counts.
C12_FirmCountsAddUp ==
    pc = "factors_done" =>
        \A k \in 1..Len(ff_nfirms) :
            LET d == ff_nfirms[k].date
                n == [c \in SixCodes |-> BucketCount(d, c)]
            IN  /\ ff_nfirms[k].TOTAL =
                       RAdd(RAdd(RAdd(n[<<"S", "L">>], n[<<"S", "ME">>]), n[<<"S", "H">>]),
                            RAdd(RAdd(n[<<"B", "L">>], n[<<"B", "ME">>]), n[<<"B", "H">>]))
                /\ ff_nfirms[k].SMB = ff_nfirms[k].TOTAL
                /\ ff_nfirms[k].HML =
                       RAdd(RAdd(n[<<"S", "H">>], n[<<"B", "H">>]),
                            RAdd(n[<<"S", "L">>], n[<<"B", "L">>]))

\* C14: factor synthesis raises nothing, whatever buckets are empty in a
\* month or in every month; a factor is missing in the months in which a
\* bucket it depends on has no return.
C14_DegenerateAggregationNeverRaises ==
    pc \in {"factors_done", "raised"} =>
        /\ err = ""
        /\ pc = "factors_done"
        /\ \A k \in 1..Len(ff_factors) :
              LET d == ff_factors[k].date
              IN  /\ (\E c \in SixCodes : IsNaN(BucketReturn(d, c)))
                        => ff_factors[k].SMB = NaN
                  /\ (\E c \in SixCodes : c[2] # "ME" /\ IsNaN(BucketReturn(d, c)))
                        => ff_factors[k].HML = NaN

\* C20: the value-weighted return of every (month, size label, value label)
\* group is the sum of return x weight over the sum of weight, both sums over
\* one and the same set of records: all records of the group, or those of
\* them with a return.
C20_WeightedAverageOverSameRecords ==
    pc = "vwret_done" =>
        \A k \in 1..Len(vwret) :
            LET G   == BucketRows(ccm4, vwret[k].jdate,
                                  <<vwret[k].szport, vwret[k].bmport>>)
                Def == {i \in G : ~IsNaN(ccm4[i].mthret)}
                rw  == [i \in G |-> RMul(ccm4[i].mthret, ccm4[i].wt)]
                w   == [i \in G |-> ccm4[i].wt]
            IN  \E C \in {G, Def} :
                    vwret[k].vwret = RDiv(SumOver(C, rw), SumOver(C, w))

\* C21: n_firms of every (month, size label, value label) group is the
\* number of records of the group in the aggregated panel, the records with
\* a missing return included.
C21_FirmCountIsGroupSize ==
    pc = "vwret_done" =>
        /\ \A k \in 1..Len(vwret_n) :
              vwret_n[k].n_firms =
                  Num(Cardinality(BucketRows(ccm4, vwret_n[k].jdate,
                                             <<vwret_n[k].szport, vwret_n[k].bmport>>)))
        /\ \A i \in 1..Len(ccm4) :
              Cardinality(BucketRows(vwret_n, ccm4[i].jdate,
                                     <<ccm4[i].szport, ccm4[i].bmport>>)) = 1

----------------------------------------------------------------------------
(* The two bucket functions on their own, as applied row by row.           *)

\* The market equities and size breakpoints a row may hold.
BucketMe == {NaN, Num(-5), Num(0), Num(15), Num(25), Num(45)}

BucketSizemedn == {NaN, Num(25)}

\* The book-to-market ratios and the breakpoint pairs <<bm30, bm70>> a row
\* may hold: no breakpoints, or bm30 <= bm70.  MaxBeme bounds the ratios.
MaxBeme == 5

BucketBeme == {NaN, Rat(19, 10)} \cup {Num(n) : n \in (-1)..MaxBeme}

BucketBreaks ==
    {<<NaN, NaN>>, <<Num(1), Num(3)>>, <<Num(2), Num(2)>>, <<Rat(19, 10), Rat(31, 10)>>}

InitBucket ==
    /\ pc = "row"
    /\ \E m \in BucketMe, sz \in BucketSizemedn, b \in BucketBeme, brk \in BucketBreaks :
          row_in = [me |-> m, sizemedn |-> sz, beme |-> b,
                    bm30 |-> brk[1], bm70 |-> brk[2]]
    /\ value_out = "" /\ err = ""
    /\ crsp_in = <<>> /\ csv_content = <<>> /\ sections = <<>>
    /\ comp_in = <<>> /\ comp = <<>> /\ crsp = <<>> /\ crsp2 = <<>>
    /\ crsp3 = <<>> /\ crsp_jun = <<>> /\ ccm_jun = <<>> /\ ccm1_jun = <<>> /\ ccm4 = <<>>
    /\ ccm = <<>> /\ today = 0
    /\ vwret = <<>> /\ vwret_n = <<>> /\ ff_factors = <<>> /\ ff_nfirms = <<>>

\* One call of size_bucket by ccm1_jun.apply(size_bucket, axis=1).
SizeBucket ==
    /\ pc = "row"
    /\ value_out' = size_bucket(row_in)
    /\ pc' = "size_bucket"
    /\ UNCHANGED <<comp_in, comp, crsp, crsp2, crsp3, crsp_jun, ccm_jun, ccm1_jun, ccm4>>
    /\ UNCHANGED <<ccm, today, vwret, vwret_n, ff_factors, ff_nfirms, err, row_in>>
    /\ UNCHANGED <<crsp_in, csv_content, sections>>

\* One call of book_to_market_bucket by ccm1_jun.apply(book_to_market_bucket, axis=1).
BookToMarketBucket ==
    /\ pc = "row"
    /\ value_out' = book_to_market_bucket(row_in)
    /\ pc' = "book_to_market_bucket"
    /\ UNCHANGED <<comp_in, comp, crsp, crsp2, crsp3, crsp_jun, ccm_jun, ccm1_jun, ccm4>>
    /\ UNCHANGED <<ccm, today, vwret, vwret_n, ff_factors, ff_nfirms, err, row_in>>
    /\ UNCHANGED <<crsp_in, csv_content, sections>>

NextBucket == SizeBucket \/ BookToMarketBucket

SpecBucket == InitBucket /\ [][NextBucket]_vars

\* C18: with bm30 <= bm70, book_to_market_bucket returns "L" when
\* 0 <= beme <= bm30, "ME" when bm30 < beme <= bm70, "H" when beme > bm70, and
\* the empty label for every other input, a negative and a missing
\* book-to-market included.
C18_ValueLabelByBreakpoints ==
    (pc = "book_to_market_bucket" /\ RLe(row_in.bm30, row_in.bm70)) =>
        LET b == row_in.beme
        IN  value_out =
                IF IsNaN(b) \/ b[1] < 0 THEN ""
                ELSE IF RLe(b, row_in.bm30) THEN "L"
                ELSE IF RLe(b, row_in.bm70) THEN "ME"
                ELSE "H"

\* C19: size_bucket returns "S" when me <= sizemedn, "B" when me > sizemedn,
\* and the empty label when me is missing.
C19_SizeLabelByBreakpoint ==
    (pc = "size_bucket" /\ ~IsNaN(row_in.sizemedn)) =>
        value_out =
            IF IsNaN(row_in.me) THEN ""
            ELSE IF RLe(row_in.me, row_in.sizemedn) THEN "S"
            ELSE "B"

----------------------------------------------------------------------------
(* _parse_csv_sections of pull_ken_french_data.py.                         *)
(*                                                                         *)
(* A line of the file is a record: id is its position in the file, blank   *)
(* says that strip() leaves nothing of it, parts is the number of fields   *)
(* split(",") gives, digits the length of the first field when isdigit()   *)
(* holds of it and 0 otherwise.  A returned table is a record of the id of *)
(* its header line and the ids of its data lines, in row order.            *)

None == 0

\* The lines a file is made of: an empty line, a title without comma, a line
\* of column names, a yearly row (1927), a monthly row (192607) and a daily
\* row (19260701), the rows with one value after the date.
Shapes ==
    {[blank |-> TRUE, parts |-> 1, digits |-> 0],
     [blank |-> FALSE, parts |-> 1, digits |-> 0],
     [blank |-> FALSE, parts |-> 2, digits |-> 0],
     [blank |-> FALSE, parts |-> 2, digits |-> 4],
     [blank |-> FALSE, parts |-> 2, digits |-> 6],
     [blank |-> FALSE, parts |-> 2, digits |-> 8]}

\* Bound of the files: the number of lines.
MaxLines == 4

Files ==
    UNION {{[i \in 1..n |-> f[i] @@ [id |-> i]] : f \in [1..n -> Shapes]} :
              n \in 0..MaxLines}

\* csv_content.strip().split("\n"): the lines without the empty lines at
\* both ends of the file; of an empty file one empty line is left.
RECURSIVE strip_split(_)
strip_split(c) ==
    IF c = <<>> THEN <<[blank |-> TRUE, parts |-> 1, digits |-> 0, id |-> 0]>>
    ELSE IF Len(c) > 1 /\ c[1].blank THEN strip_split(Tail(c))
    ELSE IF Len(c) > 1 /\ c[Len(c)].blank THEN strip_split(SubSeq(c, 1, Len(c) - 1))
    ELSE c

\* is_numeric_row = first_val.isdigit() and len(first_val) in [6, 8]
is_numeric_row(line) == line.digits \in {6, 8}

\* _parse_section: read_csv of the header and the data lines gives one row
\* per data line.  The date format is chosen by the length of the first
\* date, %Y%m for 6 and %Y%m%d for 8; the dates 192607 and 19260701 of
\* the other length do not parse under it, to_datetime raises and the
\* function returns None, here the table NoTable.
NoTable == [header |-> None, rows |-> <<>>]

parse_section(header_line, data_lines) ==
    IF \E k \in 1..Len(data_lines) : data_lines[k].digits # data_lines[1].digits
    THEN NoTable
    ELSE [header |-> header_line, rows |-> [k \in 1..Len(data_lines) |-> data_lines[k].id]]

\* The loop state before the first line.
Start == [sections |-> <<>>, current_section_lines |-> <<>>,
          in_data |-> FALSE, header_line |-> None]

\* "if current_section_lines and header_line is not None": parse the section,
\* append the table unless it is None, and reset the three loop variables.
end_section(st) ==
    IF st.current_section_lines # <<>> /\ st.header_line # None
    THEN LET df == parse_section(st.header_line, st.current_section_lines)
         IN  [sections |-> IF df # NoTable THEN Append(st.sections, df) ELSE st.sections,
              current_section_lines |-> <<>>,
              in_data |-> FALSE, header_line |-> None]
    ELSE st

\* One pass of the for loop.
loop_body(st, line) ==
    IF line.blank THEN end_section(st)
    ELSE IF is_numeric_row(line)
    THEN [st EXCEPT !.in_data = TRUE,
                    !.current_section_lines = Append(@, line)]
    ELSE IF st.in_data
    THEN LET s1 == end_section(st)
         IN  IF line.parts > 1 THEN [s1 EXCEPT !.header_line = line.id] ELSE s1
    ELSE IF line.parts > 1 THEN [st EXCEPT !.header_line = line.id]
    ELSE st

RECURSIVE loop(_, _)
loop(lines, n) ==
    IF n = 0 THEN Start ELSE loop_body(loop(lines, n - 1), lines[n])

parse_csv_sections(c) ==
    LET lines == strip_split(c)
    IN  end_section(loop(lines, Len(lines))).sections

InitParse ==
    /\ pc = "csv_content"
    /\ csv_content \in Files
    /\ sections = <<>> /\ crsp_in = <<>>
    /\ comp_in = <<>> /\ comp = <<>> /\ crsp = <<>> /\ crsp2 = <<>>
    /\ crsp3 = <<>> /\ crsp_jun = <<>> /\ ccm_jun = <<>> /\ ccm1_jun = <<>> /\ ccm4 = <<>>
    /\ ccm = <<>> /\ today = 0
    /\ vwret = <<>> /\ vwret_n = <<>> /\ ff_factors = <<>> /\ ff_nfirms = <<>>
    /\ err = "" /\ row_in = <<>> /\ value_out = ""

\* sections = _parse_csv_sections(csv_content)
ParseCsvSections ==
    /\ pc = "csv_content"
    /\ sections' = parse_csv_sections(csv_content)
    /\ pc' = "sections_done"
    /\ UNCHANGED <<comp_in, comp, crsp, crsp2, crsp3, crsp_jun, ccm_jun, ccm1_jun, ccm4>>
    /\ UNCHANGED <<ccm, today, vwret, vwret_n, ff_factors, ff_nfirms, err, row_in,
                   value_out, crsp_in, csv_content>>

NextParse == ParseCsvSections

SpecParse == InitParse /\ [][NextParse]_vars

\* The ids of the data rows that follow line h without a gap: the lines
\* after h up to the next empty or non-data line.
RowsAfter(h) ==
    LET last == CHOOSE m \in h..Len(csv_content) :
                    /\ \A i \in (h + 1)..m : ~csv_content[i].blank
                                             /\ csv_content[i].digits \in {6, 8}
                    /\ m < Len(csv_content) =>
                          \/ csv_content[m + 1].blank
                          \/ csv_content[m + 1].digits \notin {6, 8}
    IN  [k \in 1..(last - h) |-> h + k]

\* C25: every returned table holds exactly the data rows (first field a 6-
\* or 8-digit number) that follow its header line up to the next empty or
\* non-data line, so that a data row standing before any header line, or in
\* an earlier section, is in no later table; and every header line followed
\* by data rows gets its table.
C25_SectionHoldsRowsAfterItsHeader ==
    pc = "sections_done" =>
        /\ \A s \in 1..Len(sections) :
              sections[s].rows = RowsAfter(sections[s].header)
        /\ \A h \in 1..Len(csv_content) :
              ( /\ ~csv_content[h].blank /\ csv_content[h].digits = 0
                /\ csv_content[h].parts > 1
                /\ RowsAfter(h) # <<>> )
              => \E s \in 1..Len(sections) : sections[s].header = h

====
